---- MODULE Spec2Model ----
(***************************************************************************)
(* A model of the lox bytecode compiler and stack VM (gurry/lox):          *)
(*   chunk.rs / instruction.rs  - Chunk, InstructionWriter, Reader         *)
(*   compiler.rs                - the single-pass Pratt compiler           *)
(*   vm.rs / stack.rs           - the stack VM                             *)
(* The compiler's recursive descent is written as recursive operators on a *)
(* record holding the Compiler struct's fields; compile() is cut at its    *)
(* top-level loop (one action per loop iteration).  The VM is one action   *)
(* per opcode handler.                                                     *)
(***************************************************************************)
EXTENDS Integers, Sequences, FiniteSets, TLC

VARIABLES
    scanner,          \* a Scanner driven on characters, and what its last call returned
    source,           \* the scanner's input, already cut into scan results
    overflow_checks,  \* TRUE: a build with integer overflow checks (dev profile)
    c,                \* the Compiler struct
    cstatus,          \* where compile() is: "new", "compiling", "chunk", "errors", "panic"
    vm,               \* the Vm struct and the InstructionReader of the current run
    w,                \* an InstructionWriter driven directly (writer specification)
    wlast,            \* what the last writer call was given and returned
    hist              \* history of the calls made so far (writer / recovery specifications)

vars == <<scanner, source, overflow_checks, c, cstatus, vm, w, wlast, hist>>

(***************************************************************************)
(* Bounds of the model.                                                    *)
(***************************************************************************)
MaxSrcLen == 3       \* every token sequence over SmallAlphabet up to this length is a source
MaxVmSteps == 80     \* instructions one run may dispatch before the model stops following it
MaxWriterOps == 3    \* writer calls made on top of a pre-filled chunk
MaxRecoveryOps == 4  \* error-reporting calls made in the recovery specification

(***************************************************************************)
(* Program constants.                                                      *)
(***************************************************************************)
U8Max == 255         \* u8::MAX
U16Max == 65535      \* the largest value of two operand bytes, op1 << 8 | op2
PlaceHolder == 255   \* 0xff, the operand bytes of a jump that is not patched yet

(***************************************************************************)
(* usize arithmetic.  A usize is modelled by an integer r standing for the *)
(* residue r mod 2^64: r >= 0 is the value r, r < 0 is the value 2^64 + r. *)
(* Wrapping subtraction is then integer subtraction, and a subtraction     *)
(* a - b overflows exactly when the value of a is below the value of b.    *)
(***************************************************************************)
UsizeLess(a, b) ==
    IF a >= 0 /\ b >= 0 THEN a < b
    ELSE IF a >= 0 THEN TRUE          \* b stands for 2^64 + b, above every small a
    ELSE IF b >= 0 THEN FALSE
    ELSE a < b

\* a - b on usize: the wrapped result and whether the subtraction overflowed
UsizeSub(a, b) == [val |-> a - b, overflow |-> UsizeLess(a, b)]

\* (x >> 8) & 0xff and x & 0xff
HiByte(x) == (x \div 256) % 256
LoByte(x) == x % 256

(***************************************************************************)
(* value.rs: Value                                                         *)
(***************************************************************************)
NumberVal(n) == [tag |-> "Number", num |-> n, den |-> 1, str |-> "", bool |-> FALSE]
RatioVal(n, d) == [tag |-> "Number", num |-> n, den |-> d, str |-> "", bool |-> FALSE]
StringVal(s) == [tag |-> "String", num |-> 0, den |-> 1, str |-> s, bool |-> FALSE]
BooleanVal(b) == [tag |-> "Boolean", num |-> 0, den |-> 1, str |-> "", bool |-> b]
NilVal == [tag |-> "Nil", num |-> 0, den |-> 1, str |-> "", bool |-> FALSE]

(***************************************************************************)
(* instruction.rs: OpCode, #[repr(u8)], in declaration order               *)
(***************************************************************************)
OpCodeNames ==
    << "Constant", "Return", "Negate", "Add", "Subtract", "Multiply", "Divide",
       "Nil", "True", "False", "Not", "Equal", "Greater", "Less", "Print", "Pop",
       "DefineGlobal", "GetGlobal", "SetGlobal", "GetLocal", "SetLocal",
       "Jump", "JumpIfFalse", "Loop" >>

\* impl Into<u8> for OpCode
OpByte(name) == (CHOOSE i \in 1..Len(OpCodeNames) : OpCodeNames[i] = name) - 1

\* try_from giving the opcode declared after the one the byte stands for
OpFromByte_Next(b) ==
    IF b > OpByte("Loop") THEN "" ELSE OpCodeNames[((b + 1) % Len(OpCodeNames)) + 1]

\* impl TryFrom<u8> for OpCode: "" stands for Err("Unknown opcode")
OpFromByte(b) == IF b > OpByte("Loop") THEN "" ELSE OpCodeNames[b + 1]

\* read_next reading one operand byte for the jumps too
Arity_JumpsOneOperand(op) ==
    IF op \in {"Constant", "DefineGlobal", "GetGlobal", "SetGlobal", "GetLocal", "SetLocal",
               "Jump", "JumpIfFalse", "Loop"}
    THEN 1
    ELSE 0

\* the number of operand bytes read_next reads after the opcode
Arity(op) ==
    IF op \in {"Constant", "DefineGlobal", "GetGlobal", "SetGlobal", "GetLocal", "SetLocal"}
    THEN 1
    ELSE IF op \in {"Jump", "JumpIfFalse", "Loop"} THEN 2
    ELSE 0

(***************************************************************************)
(* chunk.rs: Chunk.  Code offsets are 0-based as in the source; the        *)
(* sequences are 1-based, so the byte at offset o is code[o + 1].          *)
(***************************************************************************)
NewChunk == [code |-> <<>>, line_numbers |-> <<>>, values |-> <<>>]

ChunkLen(ch) == Len(ch.code)

\* write_code with the push of the line left out
ChunkWrite_NoLine(ch, byte, line) == [ch EXCEPT !.code = Append(@, byte)]

\* Chunk::write / write_code: push the byte and its line
ChunkWrite(ch, byte, line) ==
    [ch EXCEPT !.code = Append(@, byte), !.line_numbers = Append(@, line)]

\* Chunk::read / read_code_byte: ok = FALSE when the offset is out of range
ChunkRead(ch, offset) ==
    IF offset < 0 \/ offset >= Len(ch.code)
    THEN [ok |-> FALSE, byte |-> 0]
    ELSE [ok |-> TRUE, byte |-> ch.code[offset + 1]]

\* Chunk::get_src_line_number
ChunkLine(ch, offset) ==
    IF offset < 0 \/ offset >= Len(ch.line_numbers)
    THEN [ok |-> FALSE, line |-> 0]
    ELSE [ok |-> TRUE, line |-> ch.line_numbers[offset + 1]]

\* Chunk::set: overwrite one code byte
ChunkSet(ch, loc, byte) ==
    IF loc < 0 \/ loc >= Len(ch.code)
    THEN [ok |-> FALSE, chunk |-> ch]
    ELSE [ok |-> TRUE, chunk |-> [ch EXCEPT !.code[loc + 1] = byte]]

\* Chunk::add_constant: push, return (len - 1) as u8
ChunkAddConstant(ch, v) ==
    [chunk |-> [ch EXCEPT !.values = Append(@, v)],
     index |-> Len(ch.values) % (U8Max + 1)]

\* Chunk::get_constant
ChunkGetConstant(ch, index) ==
    IF index < 0 \/ index >= Len(ch.values)
    THEN [ok |-> FALSE, value |-> NilVal]
    ELSE [ok |-> TRUE, value |-> ch.values[index + 1]]

(***************************************************************************)
(* instruction.rs: InstructionWriter.  A call returns a record: chunk (the *)
(* writer's chunk afterwards), ok (FALSE: Err), panic (TRUE: the call      *)
(* panicked), start (the usize it returns).                                *)
(***************************************************************************)
WOk(ch, start) == [chunk |-> ch, ok |-> TRUE, panic |-> FALSE, start |-> start, msg |-> ""]
WErr(ch, msg) == [chunk |-> ch, ok |-> FALSE, panic |-> FALSE, start |-> 0, msg |-> msg]
WPanic(ch, msg) == [chunk |-> ch, ok |-> FALSE, panic |-> TRUE, start |-> 0, msg |-> msg]

\* InstructionWriter::add_constant
WriterAddConstant(ch, v) == ChunkAddConstant(ch, v)

\* InstructionWriter::write_op_code
WriteOpCode(ch, op, line) == ChunkWrite(ch, OpByte(op), line)

\* InstructionWriter::write_op_code_with_operand
WriteOpCodeWithOperand(ch, op, operand, line) ==
    ChunkWrite(ChunkWrite(ch, OpByte(op), line), operand, line)

\* InstructionWriter::write_op_code_with_operands
WriteOpCodeWithOperands(ch, op, operand1, operand2, line) ==
    ChunkWrite(ChunkWrite(ChunkWrite(ch, OpByte(op), line), operand1, line), operand2, line)

\* InstructionWriter::write_const
WriteConst(ch, v, line) ==
    LET r == ChunkAddConstant(ch, v)
    IN  IF r.index > U8Max
        THEN WErr(r.chunk, "Too many costants in chunk")
        ELSE WOk(WriteOpCodeWithOperand(r.chunk, "Constant", r.index, line),
                 ChunkLen(r.chunk))

\* InstructionWriter::write_jump_if_false / write_jump: the opcode's offset is returned
WriteJumpIfFalse(ch, line) ==
    WOk(WriteOpCodeWithOperands(ch, "JumpIfFalse", PlaceHolder, PlaceHolder, line), ChunkLen(ch))

WriteJump(ch, line) ==
    WOk(WriteOpCodeWithOperands(ch, "Jump", PlaceHolder, PlaceHolder, line), ChunkLen(ch))

\* InstructionWriter::write_loop: offset = len - (loop_start_loc - 3) on usize
WriteLoop(ch, loop_start_loc, line, checks) ==
    LET inner == UsizeSub(loop_start_loc, 3)
        outer == UsizeSub(ChunkLen(ch), inner.val)
        offset == outer.val
    IN  IF checks /\ (inner.overflow \/ outer.overflow)
        THEN WPanic(ch, "attempt to subtract with overflow")
        ELSE WOk(WriteOpCodeWithOperands(ch, "Loop", HiByte(offset), LoByte(offset), line),
                 ChunkLen(ch))

\* whether write_loop's arithmetic overflows for this chunk and loop start
WriteLoopOverflows(ch, loop_start_loc) ==
    LET inner == UsizeSub(loop_start_loc, 3)
    IN  inner.overflow \/ UsizeSub(ChunkLen(ch), inner.val).overflow

\* InstructionWriter::patch_operands with both operands given
PatchOperands(ch, op_code_loc, operand1, operand2) ==
    LET r1 == ChunkSet(ch, op_code_loc + 1, operand1)
        r2 == ChunkSet(r1.chunk, op_code_loc + 2, operand2)
    IN  IF ~r1.ok THEN WErr(ch, "out of range")
        ELSE IF ~r2.ok THEN WErr(r1.chunk, "out of range")
        ELSE WOk(r2.chunk, 0)

\* patch_jump_to_chunk_end with the patch left out: the jump stays as it was written
PatchJumpToChunkEnd_Skip(ch, jmp_op_code_loc, checks) == WOk(ch, 0)

\* InstructionWriter::patch_jump_to_chunk_end.  Its test `relative_offset > usize::MAX`
\* is false for every usize, so the bail! behind it is never taken.
PatchJumpToChunkEnd(ch, jmp_op_code_loc, checks) ==
    LET rel == UsizeSub(ChunkLen(ch), jmp_op_code_loc + 3)
    IN  IF checks /\ rel.overflow
        THEN WPanic(ch, "attempt to subtract with overflow")
        ELSE PatchOperands(ch, jmp_op_code_loc, HiByte(rel.val), LoByte(rel.val))

(***************************************************************************)
(* scanner.rs, at its token contract: the source is the sequence of the    *)
(* results scan_next gives, a token or (type "ScanError") an Err, and Eof  *)
(* for ever once the sequence is used up.                                  *)
(***************************************************************************)
Tok(type, lexeme, line) == [type |-> type, lexeme |-> lexeme, line |-> line]
NoToken == Tok("None", "", 0)

SourceLine(src) == IF Len(src) = 0 THEN 1 ELSE src[Len(src)].line

\* Scanner::scan_next at position pos (1-based) of the source
ScanNext(src, pos) ==
    IF pos > Len(src)
    THEN [ok |-> TRUE, token |-> Tok("Eof", "", SourceLine(src)), pos |-> pos]
    ELSE [ok |-> src[pos].type # "ScanError", token |-> src[pos], pos |-> pos + 1]

(***************************************************************************)
(* scanner.rs, on characters: the Scanner struct is a record               *)
(* [source, start, current, line], source a sequence of one-character      *)
(* strings, start and current 0-based as in the code.                      *)
(***************************************************************************)
Nul == "NUL"     \* stands for '\0', which peek and peek_next give at the end of the source

\* Scanner::new
ScannerNew(text) == [source |-> text, start |-> 0, current |-> 0, line |-> 1]

IsAtEnd(s) == s.current >= Len(s.source)
CharAt(s, index) == IF index >= Len(s.source) THEN Nul ELSE s.source[index + 1]
Peek(s) == IF IsAtEnd(s) THEN Nul ELSE CharAt(s, s.current)
PeekNext(s) == CharAt(s, s.current + 1)
IsDigit(ch) == ch \in {"0", "1", "2", "3", "4", "5", "6", "7", "8", "9"}
IsAlpha(ch) == ch \in {"a", "b", "_"}      \* the letters of the texts scanned here
IsAlphanumeric(ch) == IsAlpha(ch) \/ IsDigit(ch)

\* Scanner::advance, whose result is the character at current before the call
ScannerAdvance(s) == [s EXCEPT !.current = @ + 1]

RECURSIVE Slice(_, _, _)
\* &source[from..to]
Slice(text, from, to) ==
    IF from >= to THEN "" ELSE text[from + 1] \o Slice(text, from + 1, to)

\* Scanner::current_lexeme
CurrentLexeme(s) == Slice(s.source, s.start, s.current)

\* Scanner::char_matches: the scanner afterwards; it matched when current moved
CharMatches(s, expected) ==
    IF IsAtEnd(s) \/ CharAt(s, s.current) # expected THEN s ELSE ScannerAdvance(s)

RECURSIVE SkipComment(_)
\* skip_whitespace: while self.peek() != '\n' && !self.is_at_end() { self.advance(); }
SkipComment(s) ==
    IF Peek(s) # "\n" /\ ~IsAtEnd(s) THEN SkipComment(ScannerAdvance(s)) ELSE s

RECURSIVE SkipWhitespace(_)
\* Scanner::skip_whitespace
SkipWhitespace(s) ==
    CASE Peek(s) = "\n" -> SkipWhitespace(ScannerAdvance([s EXCEPT !.line = @ + 1]))
      [] Peek(s) \in {" ", "\r", "\t"} -> SkipWhitespace(ScannerAdvance(s))
      [] Peek(s) = "/" -> IF PeekNext(s) = "/" THEN SkipWhitespace(SkipComment(s)) ELSE s
      [] OTHER -> s

RECURSIVE WhileDigit(_)
WhileDigit(s) == IF IsDigit(Peek(s)) THEN WhileDigit(ScannerAdvance(s)) ELSE s

RECURSIVE WhileAlphanumeric(_)
WhileAlphanumeric(s) ==
    IF IsAlphanumeric(Peek(s)) THEN WhileAlphanumeric(ScannerAdvance(s)) ELSE s

RECURSIVE WhileInString(_)
\* Scanner::string, its loop up to the closing quote or the end
WhileInString(s) ==
    IF Peek(s) # "\"" /\ ~IsAtEnd(s)
    THEN WhileInString(ScannerAdvance(IF Peek(s) = "\n" THEN [s EXCEPT !.line = @ + 1] ELSE s))
    ELSE s

Scanned(s, type) == [scanner |-> s, ok |-> TRUE, type |-> type, message |-> ""]
ScanFailed(s, message) == [scanner |-> s, ok |-> FALSE, type |-> "ScanError", message |-> message]

\* Scanner::string
ScanString(s) ==
    LET s1 == WhileInString(s)
    IN  IF IsAtEnd(s1) THEN ScanFailed(s1, "Unterminated string.")
        ELSE Scanned(ScannerAdvance(s1), "String")

\* Scanner::number; the lexeme is digits with at most one point inside, which parses
ScanNumber(s) ==
    LET s1 == WhileDigit(s)
    IN  IF Peek(s1) = "." /\ IsDigit(PeekNext(s1))
        THEN Scanned(WhileDigit(ScannerAdvance(s1)), "Number")
        ELSE Scanned(s1, "Number")

Keywords ==
    [and |-> "And", class |-> "Class", else |-> "Else", false |-> "False", for |-> "For",
     fun |-> "Fun", if |-> "If", nil |-> "Nil", or |-> "Or", print |-> "Print",
     return |-> "Return", super |-> "Super", this |-> "This", true |-> "True",
     var |-> "Var", while |-> "While"]

\* Scanner::identifier
ScanIdentifier(s) ==
    LET s1 == WhileAlphanumeric(s)
        lexeme == CurrentLexeme(s1)
    IN  Scanned(s1, IF lexeme \in DOMAIN Keywords THEN Keywords[lexeme] ELSE "Identifier")

\* the second character of a two-character operator, when `ch` follows
OneOrTwo(s, ch, two, one) ==
    LET s1 == CharMatches(s, ch)
    IN  Scanned(s1, IF s1.current > s.current THEN two ELSE one)

\* Scanner::scan_token, called when the scanner is not at the end
ScanToken(s) ==
    LET s0 == [s EXCEPT !.start = s.current]
        ch == CharAt(s0, s0.current)
        s1 == ScannerAdvance(s0)
    IN  CASE ch = "(" -> Scanned(s1, "LeftParen")
          [] ch = ")" -> Scanned(s1, "RightParen")
          [] ch = "{" -> Scanned(s1, "LeftBrace")
          [] ch = "}" -> Scanned(s1, "RightBrace")
          [] ch = "," -> Scanned(s1, "Comma")
          [] ch = "." -> Scanned(s1, "Dot")
          [] ch = "-" -> Scanned(s1, "Minus")
          [] ch = "+" -> Scanned(s1, "Plus")
          [] ch = ";" -> Scanned(s1, "Semicolon")
          [] ch = "*" -> Scanned(s1, "Star")
          [] ch = "!" -> OneOrTwo(s1, "=", "BangEqual", "Bang")
          [] ch = "=" -> OneOrTwo(s1, "=", "EqualEqual", "Equal")
          [] ch = "<" -> OneOrTwo(s1, "=", "LessEqual", "Less")
          [] ch = ">" -> OneOrTwo(s1, "=", "GreaterEqual", "Greater")
          [] ch = "/" -> Scanned(s1, "Slash")
          [] IsDigit(ch) -> ScanNumber(s1)
          [] ch = "\"" -> ScanString(s1)
          [] IsAlpha(ch) -> ScanIdentifier(s1)
          [] OTHER -> ScanFailed(s1, "Unexpected character.")

\* Scanner::scan_next: the scanner afterwards and what is returned, a token (its lexeme
\* the slice from start to current) or an Err
ScannerScanNext(s) ==
    LET s1 == SkipWhitespace(s)
        r == ScanToken(s1)
    IN  IF IsAtEnd(s1)
        THEN [scanner |-> s1, ok |-> TRUE, token |-> Tok("Eof", "", s1.line)]
        ELSE IF r.ok
        THEN [scanner |-> r.scanner, ok |-> TRUE,
              token |-> Tok(r.type, CurrentLexeme(r.scanner), r.scanner.line)]
        ELSE [scanner |-> r.scanner, ok |-> FALSE,
              token |-> Tok("ScanError", r.message, r.scanner.line)]

\* no Scanner driven on characters, and nothing returned yet
ScannerIdle == [state |-> ScannerNew(<<>>), calls |-> 0, ok |-> TRUE, token |-> NoToken]

(***************************************************************************)
(* compiler.rs: messages and errors.  A message is what Display gives: a   *)
(* plain text, or a CompileError::Parse formatted with its lexeme and line.*)
(***************************************************************************)
PlainMsg(text) == [text |-> text, formatted |-> FALSE, lexeme |-> "", line |-> 0]
FormattedParseError(text, lexeme, line) ==
    [text |-> text, formatted |-> TRUE, lexeme |-> lexeme, line |-> line]

\* CompileError::Parse { msg, lexeme, line } and CompileError::Scan(ScanError)
ParseError(msg, lexeme, line) == [kind |-> "Parse", msg |-> msg, lexeme |-> lexeme, line |-> line]
ScanErrorOf(token) ==
    [kind |-> "Scan", msg |-> PlainMsg(token.lexeme), lexeme |-> "", line |-> token.line]

(***************************************************************************)
(* compiler.rs: Precedence, #[repr(i32)], and the parse rule table         *)
(***************************************************************************)
PrecedenceNames ==
    << "None", "Assignment", "Or", "And", "Equality", "Comparison",
       "Term", "Factor", "Unary", "Call", "Primary" >>

Prec(name) == (CHOOSE i \in 1..Len(PrecedenceNames) : PrecedenceNames[i] = name) - 1

\* Precedence::is_greater_than / is_greater_than_or_eq
IsGreaterThan(p, q) == p > q
IsGreaterThanOrEq(p, q) == p = q \/ IsGreaterThan(p, q)

ParseRule(prefix, infix, precedence) ==
    [prefix |-> prefix, infix |-> infix, precedence |-> Prec(precedence)]

\* Compiler::set_up_parse_rules / get_rule: "" is None
GetRule(type) ==
    CASE type = "LeftParen" -> ParseRule("grouping", "", "None")
      [] type = "Minus" -> ParseRule("unary", "binary", "Term")
      [] type = "Plus" -> ParseRule("", "binary", "Term")
      [] type = "Slash" -> ParseRule("", "binary", "Factor")
      [] type = "Star" -> ParseRule("", "binary", "Factor")
      [] type = "Bang" -> ParseRule("unary", "", "Factor")
      [] type = "BangEqual" -> ParseRule("", "binary", "Equality")
      [] type = "EqualEqual" -> ParseRule("", "binary", "Equality")
      [] type = "Greater" -> ParseRule("", "binary", "Comparison")
      [] type = "GreaterEqual" -> ParseRule("", "binary", "Comparison")
      [] type = "Less" -> ParseRule("", "binary", "Comparison")
      [] type = "LessEqual" -> ParseRule("", "binary", "Comparison")
      [] type = "Identifier" -> ParseRule("variable", "", "None")
      [] type = "String" -> ParseRule("string", "", "None")
      [] type = "Number" -> ParseRule("number", "", "None")
      [] type = "And" -> ParseRule("", "and", "And")
      [] type = "False" -> ParseRule("literal", "", "None")
      [] type = "Nil" -> ParseRule("literal", "", "None")
      [] type = "Or" -> ParseRule("", "or", "And")
      [] type = "True" -> ParseRule("literal", "", "None")
      [] OTHER -> ParseRule("", "", "None")

(***************************************************************************)
(* compiler.rs: the Compiler struct.  err is the Result of the method that *)
(* just returned: <<>> is Ok, otherwise the anyhow error's chain(), the    *)
(* outermost context first.  panicked: a panic!, unwrap or overflow check  *)
(* aborted the compiler.  The log_ fields record calls made, for the       *)
(* properties; the compiler never reads them.                              *)
(***************************************************************************)
NewCompiler ==
    [pos |-> 1, chunk |-> NewChunk, current |-> NoToken, prev |-> NoToken,
     scope_depth |-> 0, locals |-> <<>>, errors |-> <<>>, panic_mode |-> FALSE,
     err |-> <<>>, panicked |-> FALSE,
     log_decl |-> <<>>, log_pop |-> <<>>, log_resolve |-> <<>>, log_loop |-> <<>>]

Failed(cc) == cc.err # <<>> \/ cc.panicked
Bail(cc, msg) == [cc EXCEPT !.err = <<msg>>]
Panic(cc) == [cc EXCEPT !.panicked = TRUE]

\* `F(cc)?`-style sequencing: the rest F runs on the state cc unless cc has failed
Then(cc, F(_)) == IF Failed(cc) THEN cc ELSE F(cc)

\* `let x = ...;` followed by the rest F
With(x, F(_)) == F(x)

\* push_error without its panic_mode test: the error is recorded in panic mode too
PushError_NoPanicMode(cc, error) ==
    [cc EXCEPT !.errors = Append(@, error), !.panic_mode = TRUE]

\* Compiler::push_error
PushError(cc, error) ==
    IF ~cc.panic_mode
    THEN [cc EXCEPT !.errors = Append(@, error), !.panic_mode = TRUE]
    ELSE cc

\* Compiler::push_scan_error
PushScanError(cc, token) == PushError(cc, ScanErrorOf(token))

\* Compiler::push_parse_error
PushParseError(cc, msg, token) == PushError(cc, ParseError(msg, token.lexeme, token.line))

\* Compiler::push_current_parse_error: expect() panics without a current token
PushCurrentParseError(cc, msg) ==
    IF cc.current.type = "None" THEN Panic(cc) ELSE PushParseError(cc, msg, cc.current)

RECURSIVE ScanLoop(_)
\* the loop of Compiler::advance: scan until a token comes, reporting the scan errors
ScanLoop(cc) ==
    LET r == ScanNext(source, cc.pos)
    IN  IF r.ok
        THEN [cc EXCEPT !.current = r.token, !.pos = r.pos]
        ELSE ScanLoop(PushScanError([cc EXCEPT !.pos = r.pos], r.token))

\* Compiler::advance
Advance(cc) == ScanLoop([cc EXCEPT !.prev = cc.current, !.current = NoToken])

\* Compiler::check / check_prev
Check(cc, type) == cc.current.type = type
CheckPrev(cc, type) == cc.prev.type = type

\* Compiler::matches: the state afterwards; its result is Check(cc, type)
Matches(cc, type) == IF Check(cc, type) THEN Advance(cc) ELSE cc

\* Compiler::consume
Consume(cc, type, message) ==
    IF cc.current.type # "None"
    THEN IF cc.current.type = type THEN Advance(cc)
         ELSE PushCurrentParseError(cc, PlainMsg(message))
    ELSE PushCurrentParseError(cc, PlainMsg("Expected token but no current token"))

SyncStops ==
    {"Class", "Fun", "Var", "For", "If", "While", "Print", "Return"}

RECURSIVE SynchronizeLoop(_)
SynchronizeLoop(cc) ==
    IF Check(cc, "Eof") THEN cc
    ELSE IF CheckPrev(cc, "Semicolon") THEN cc
    ELSE IF cc.current.type \in SyncStops THEN cc
    ELSE SynchronizeLoop(Advance(cc))

\* Compiler::synchronize
Synchronize(cc) == SynchronizeLoop([cc EXCEPT !.panic_mode = FALSE])

(***************************************************************************)
(* compiler.rs: emitting through the writer                                *)
(***************************************************************************)
Emit(cc, op, line) == [cc EXCEPT !.chunk = WriteOpCode(@, op, line)]
Emit1(cc, op, operand, line) ==
    [cc EXCEPT !.chunk = WriteOpCodeWithOperand(@, op, operand, line)]

\* a writer call that returns Result<_>: `?` turns its Err into the compiler's
FromWriter(cc, r) ==
    IF r.panic THEN Panic([cc EXCEPT !.chunk = r.chunk])
    ELSE IF ~r.ok THEN Bail([cc EXCEPT !.chunk = r.chunk], PlainMsg(r.msg))
    ELSE [cc EXCEPT !.chunk = r.chunk]

\* str::parse::<f64> on the lexeme of a Number token without a fraction
DigitValue(d) ==
    CASE d = "0" -> 0 [] d = "1" -> 1 [] d = "2" -> 2 [] d = "3" -> 3 [] d = "4" -> 4
      [] d = "5" -> 5 [] d = "6" -> 6 [] d = "7" -> 7 [] d = "8" -> 8 [] d = "9" -> 9

RECURSIVE ParseDigits(_, _)
ParseDigits(lexeme, n) ==
    IF n = 0 THEN 0
    ELSE 10 * ParseDigits(lexeme, n - 1) + DigitValue(SubSeq(lexeme, n, n))

ParseF64(lexeme) == NumberVal(ParseDigits(lexeme, Len(lexeme)))

\* lexeme[1..lexeme.len()-1]
StripQuotes(lexeme) == SubSeq(lexeme, 2, Len(lexeme) - 1)

(***************************************************************************)
(* compiler.rs: locals                                                     *)
(***************************************************************************)
Local(name, depth) == [name |-> name, depth |-> depth, initialized |-> FALSE]

\* Compiler::add_local
AddLocal(cc, name) ==
    IF Len(cc.locals) >= U8Max
    THEN Panic(cc)
    ELSE [cc EXCEPT !.locals = Append(@, Local(name, cc.scope_depth))]

\* Compiler::declare_variable
DeclareVariable(cc) ==
    IF cc.scope_depth = 0 THEN cc ELSE AddLocal(cc, cc.prev.lexeme)

\* Compiler::resolve_local: found = FALSE is Ok(None), uninit = TRUE is the Err
ResolveLocal(locals, name) ==
    LET hits == {i \in 1..Len(locals) : locals[i].name = name}
    IN  IF hits = {}
        THEN [found |-> FALSE, uninit |-> FALSE, slot |-> 0]
        ELSE LET first == CHOOSE i \in hits : \A j \in hits : i <= j
             IN  [found |-> locals[first].initialized,
                  uninit |-> ~locals[first].initialized,
                  slot |-> first - 1]

\* Compiler::identifier_constant: the state afterwards and the index returned
IdentifierConstant(cc, name) ==
    LET r == WriterAddConstant(cc.chunk, StringVal(name))
    IN  [cc |-> [cc EXCEPT !.chunk = r.chunk], index |-> r.index]

\* Compiler::define_variable
DefineVariable(cc, index) ==
    IF cc.scope_depth > 0
    THEN IF Len(cc.locals) = 0 THEN Panic(cc)
         ELSE [cc EXCEPT !.locals[Len(cc.locals)].initialized = TRUE]
    ELSE Emit1(cc, "DefineGlobal", index, cc.prev.line)

\* Compiler::parse_variable: the state afterwards and the u8 returned
ParseVariable(cc, msg) ==
    With(Then(Consume(cc, "Identifier", msg), LAMBDA c1 : DeclareVariable(c1)),
         LAMBDA c2 : IF Failed(c2) \/ c2.scope_depth > 0
                     THEN [cc |-> c2, index |-> 0]
                     ELSE IdentifierConstant(c2, c2.prev.lexeme))

\* Compiler::begin_scope
BeginScope(cc) == [cc EXCEPT !.scope_depth = @ + 1]

\* one turn of the loop of end_scope that does not break: a Pop is written and the last
\* local (the one at i, as every turn before has popped one) is popped
EndScopeTurn(cc) ==
    [cc EXCEPT !.chunk = WriteOpCode(@, "Pop", cc.prev.line),
               !.locals = SubSeq(@, 1, Len(@) - 1),
               !.log_pop = Append(@, [name |-> cc.locals[Len(cc.locals)].name,
                                      depth |-> cc.locals[Len(cc.locals)].depth,
                                      closed |-> cc.scope_depth + 1])]

\* the turns the loop of end_scope makes before it breaks: it goes down from the last
\* local and breaks at the first one with depth < scope_depth, or after index 0
EndScopeTurns(cc) ==
    Len(cc.locals)
        - Cardinality({j \in 1..Len(cc.locals) :
                          \E k \in j..Len(cc.locals) : cc.locals[k].depth < cc.scope_depth})

RECURSIVE EndScopeLoop(_, _)
\* the loop of end_scope making n turns (cc is evaluated before the turns are split)
EndScopeLoop(cc, n) ==
    IF n <= 0 \/ Len(cc.locals) < 0 THEN cc
    ELSE IF n = 1 THEN EndScopeTurn(cc)
    ELSE EndScopeLoop(EndScopeLoop(cc, n \div 2), n - n \div 2)

\* Compiler::end_scope
EndScope(cc) ==
    With([cc EXCEPT !.scope_depth = @ - 1],
         LAMBDA c1 : IF Len(c1.locals) > 0 THEN EndScopeLoop(c1, EndScopeTurns(c1)) ELSE c1)

(***************************************************************************)
(* compiler.rs: the Pratt parser.  Every operator takes the Compiler and   *)
(* gives the Compiler after the method returned; Failed(cc) after a call   *)
(* is the `?` that returns at once.                                        *)
(***************************************************************************)
RECURSIVE ParsePrecedence(_, _), InfixLoop(_, _), CallParseFn(_, _, _),
          Statement(_), Declaration(_), BlockLoop(_)

\* Compiler::expression
Expression(cc) == ParsePrecedence(cc, Prec("Assignment"))

\* Compiler::grouping
Grouping(cc, can_assign) ==
    Then(Expression(cc), LAMBDA c1 : Consume(c1, "RightParen", "Expected ')'"))

\* Compiler::and
And(cc, can_assign) ==
    LET line == cc.prev.line
    IN  With(WriteJumpIfFalse(cc.chunk, line), LAMBDA end_jump :
        Then(ParsePrecedence(Emit(FromWriter(cc, end_jump), "Pop", line), Prec("And")),
             LAMBDA c2 : FromWriter(c2, PatchJumpToChunkEnd(c2.chunk, end_jump.start,
                                                            overflow_checks))))

\* Compiler::or
Or(cc, can_assign) ==
    LET line == cc.prev.line
    IN  With(WriteJumpIfFalse(cc.chunk, line), LAMBDA else_jump :
        With(WriteJump(else_jump.chunk, line), LAMBDA end_jump :
        Then(FromWriter(cc, PatchJumpToChunkEnd(end_jump.chunk, else_jump.start,
                                                overflow_checks)),
             LAMBDA c2 :
        Then(ParsePrecedence(Emit(c2, "Pop", line), Prec("Or")),
             LAMBDA c3 : FromWriter(c3, PatchJumpToChunkEnd(c3.chunk, end_jump.start,
                                                            overflow_checks))))))

\* Compiler::unary
Unary(cc, can_assign) ==
    LET operator_type == cc.prev.type
        line == cc.prev.line
    IN  Then(ParsePrecedence(cc, Prec("Unary")),
             LAMBDA c1 : IF operator_type = "Bang" THEN Emit(c1, "Not", line)
                         ELSE IF operator_type = "Minus" THEN Emit(c1, "Negate", line)
                         ELSE c1)

\* the op codes Compiler::binary writes for an operator
\* the op codes of binary with >= and <= lowered to the same comparison, not the opposite one
BinaryOps_SameComparison(operator_type) ==
    CASE operator_type = "Plus" -> <<"Add">>
      [] operator_type = "Minus" -> <<"Subtract">>
      [] operator_type = "Star" -> <<"Multiply">>
      [] operator_type = "Slash" -> <<"Divide">>
      [] operator_type = "BangEqual" -> <<"Equal", "Not">>
      [] operator_type = "EqualEqual" -> <<"Equal">>
      [] operator_type = "Greater" -> <<"Greater">>
      [] operator_type = "GreaterEqual" -> <<"Greater", "Not">>
      [] operator_type = "Less" -> <<"Less">>
      [] operator_type = "LessEqual" -> <<"Less", "Not">>
      [] OTHER -> <<>>

BinaryOps(operator_type) ==
    CASE operator_type = "Plus" -> <<"Add">>
      [] operator_type = "Minus" -> <<"Subtract">>
      [] operator_type = "Star" -> <<"Multiply">>
      [] operator_type = "Slash" -> <<"Divide">>
      [] operator_type = "BangEqual" -> <<"Equal", "Not">>
      [] operator_type = "EqualEqual" -> <<"Equal">>
      [] operator_type = "Greater" -> <<"Greater">>
      [] operator_type = "GreaterEqual" -> <<"Less", "Not">>
      [] operator_type = "Less" -> <<"Less">>
      [] operator_type = "LessEqual" -> <<"Greater", "Not">>
      [] OTHER -> <<>>

RECURSIVE EmitAll(_, _, _)
EmitAll(cc, ops, line) ==
    IF ops = <<>> THEN cc ELSE EmitAll(Emit(cc, Head(ops), line), Tail(ops), line)

\* binary parsing its right operand at the operator's own precedence, not one higher
Binary_SameLevel(cc, can_assign) ==
    LET operator_type == cc.prev.type
        line == cc.prev.line
    IN  Then(ParsePrecedence(cc, GetRule(operator_type).precedence),
             LAMBDA c1 : EmitAll(c1, BinaryOps(operator_type), line))

\* Compiler::binary; Precedence::higher panics above Primary
Binary(cc, can_assign) ==
    LET operator_type == cc.prev.type
        line == cc.prev.line
        higher == GetRule(operator_type).precedence + 1
    IN  Then(IF higher > Prec("Primary") THEN Panic(cc) ELSE ParsePrecedence(cc, higher),
             LAMBDA c1 : EmitAll(c1, BinaryOps(operator_type), line))

\* Compiler::named_variable
NamedVariable(cc, name, can_assign) ==
    LET line == cc.prev.line
        r == ResolveLocal(cc.locals, name)
        logged == [cc EXCEPT !.log_resolve =
                      Append(@, [name |-> name, locals |-> cc.locals,
                                 found |-> r.found, uninit |-> r.uninit, slot |-> r.slot])]
        get_op == IF r.found THEN "GetLocal" ELSE "GetGlobal"
        set_op == IF r.found THEN "SetLocal" ELSE "SetGlobal"
    IN  IF r.uninit
        THEN Bail(logged, PlainMsg("Use of uninitialized local variable " \o name))
        ELSE With(IF r.found THEN [cc |-> logged, index |-> r.slot % (U8Max + 1)]
                  ELSE IdentifierConstant(logged, name),
                  LAMBDA g :
                      IF can_assign /\ Check(g.cc, "Equal")
                      THEN Then(Expression(Advance(g.cc)),
                                LAMBDA c1 : Emit1(c1, set_op, g.index, line))
                      ELSE Emit1(g.cc, get_op, g.index, line))

\* Compiler::variable
Variable(cc, can_assign) == NamedVariable(cc, cc.prev.lexeme, can_assign)

\* Compiler::number
Number(cc, can_assign) ==
    FromWriter(cc, WriteConst(cc.chunk, ParseF64(cc.prev.lexeme), cc.prev.line))

\* Compiler::string
String(cc, can_assign) ==
    FromWriter(cc, WriteConst(cc.chunk, StringVal(StripQuotes(cc.prev.lexeme)), cc.prev.line))

\* Compiler::literal
Literal(cc, can_assign) ==
    IF cc.prev.type \in {"Nil", "True", "False"}
    THEN Emit(cc, cc.prev.type, cc.prev.line)
    ELSE cc

\* ParseRule::call on Some(f)
CallParseFn(f, cc, can_assign) ==
    CASE f = "grouping" -> Grouping(cc, can_assign)
      [] f = "unary" -> Unary(cc, can_assign)
      [] f = "binary" -> Binary(cc, can_assign)
      [] f = "variable" -> Variable(cc, can_assign)
      [] f = "string" -> String(cc, can_assign)
      [] f = "number" -> Number(cc, can_assign)
      [] f = "literal" -> Literal(cc, can_assign)
      [] f = "and" -> And(cc, can_assign)
      [] f = "or" -> Or(cc, can_assign)

\* with_context of prev_call_prefix / prev_call_infix: the context is built from prev()
\* when the call has failed
WithContext(cc, msg) ==
    IF cc.err # <<>>
    THEN [cc EXCEPT !.err = <<FormattedParseError(msg, cc.prev.lexeme, cc.prev.line)>> \o @]
    ELSE cc

\* Compiler::prev_call_prefix
PrevCallPrefix(cc, precedence, msg) ==
    LET rule == GetRule(cc.prev.type)
        can_assign == IsGreaterThanOrEq(Prec("Assignment"), precedence)
    IN  WithContext(IF rule.prefix = "" THEN Bail(cc, PlainMsg(msg))
                    ELSE CallParseFn(rule.prefix, cc, can_assign), msg)

\* Compiler::prev_call_infix
PrevCallInfix(cc, precedence, msg) ==
    LET rule == GetRule(cc.prev.type)
        can_assign == IsGreaterThanOrEq(Prec("Assignment"), precedence)
    IN  WithContext(IF rule.infix = "" THEN Bail(cc, PlainMsg(msg))
                    ELSE CallParseFn(rule.infix, cc, can_assign), msg)

\* the loop of parse_precedence
InfixLoop(cc, precedence) ==
    IF IsGreaterThan(precedence, GetRule(cc.current.type).precedence) THEN cc
    ELSE Then(PrevCallInfix(Advance(cc), precedence, "Expected expression"),
              LAMBDA c1 : InfixLoop(c1, precedence))

\* parse_precedence refusing a token that begins no expression before consuming it
ParsePrecedence_Peek(cc, precedence) ==
    LET can_assign == IsGreaterThan(Prec("Assignment"), precedence)
    IN  IF GetRule(cc.current.type).prefix = ""
        THEN WithContext(Bail(cc, PlainMsg("Expected expression")), "Expected expression")
        ELSE
        Then(PrevCallPrefix(Advance(cc), precedence, "Expected expression"), LAMBDA c1 :
        Then(InfixLoop(c1, precedence), LAMBDA c2 :
             IF can_assign /\ Check(c2, "Equal")
             THEN With(Advance(c2), LAMBDA c3 :
                       Bail(c3, FormattedParseError("Invalid assignment target",
                                                    c3.prev.lexeme, c3.prev.line)))
             ELSE c2))

\* Compiler::parse_precedence
ParsePrecedence(cc, precedence) ==
    LET can_assign == IsGreaterThan(Prec("Assignment"), precedence)
    IN  Then(PrevCallPrefix(Advance(cc), precedence, "Expected expression"), LAMBDA c1 :
        Then(InfixLoop(c1, precedence), LAMBDA c2 :
             IF can_assign /\ Check(c2, "Equal")
             THEN With(Advance(c2), LAMBDA c3 :
                       Bail(c3, FormattedParseError("Invalid assignment target",
                                                    c3.prev.lexeme, c3.prev.line)))
             ELSE c2))

(***************************************************************************)
(* compiler.rs: statements and declarations                                *)
(***************************************************************************)
\* Compiler::print_statement
PrintStatement(cc) ==
    Then(Expression(cc), LAMBDA c1 :
    Then(Consume(c1, "Semicolon", "Expected ';' after value."), LAMBDA c2 :
         Emit(c2, "Print", c2.prev.line)))

\* Compiler::expression_statement
ExpressionStatement(cc) ==
    Then(Expression(cc), LAMBDA c1 :
    Then(Consume(c1, "Semicolon", "Expected ';' after expression."), LAMBDA c2 :
         Emit(c2, "Pop", c2.prev.line)))

\* Compiler::if_statement
IfStatement(cc) ==
    Then(Consume(cc, "LeftParen", "Expected '(' after 'if'."), LAMBDA c0 :
    Then(Expression(c0), LAMBDA c1 :
    Then(Consume(c1, "RightParen", "Expected ')' after condition"), LAMBDA c2 :
    With(WriteJumpIfFalse(c2.chunk, c2.prev.line), LAMBDA if_jump :
    Then(Statement(Emit(FromWriter(c2, if_jump), "Pop", c2.prev.line)), LAMBDA c3 :
    With(WriteJump(c3.chunk, c2.prev.line), LAMBDA else_jump :
    Then(FromWriter(c3, PatchJumpToChunkEnd(else_jump.chunk, if_jump.start, overflow_checks)),
         LAMBDA c5 :
    With(Emit(c5, "Pop", c2.prev.line), LAMBDA c6 :
    Then(IF Check(c6, "Else") THEN Statement(Advance(c6)) ELSE c6, LAMBDA c7 :
         FromWriter(c7, PatchJumpToChunkEnd(c7.chunk, else_jump.start, overflow_checks)))))))))))

\* the state write_loop is called in, with the call recorded in log_loop
LogLoop(cc, loop_start) ==
    [cc EXCEPT !.log_loop =
        Append(@, [loop_start |-> loop_start, at |-> ChunkLen(cc.chunk),
                   overflow |-> WriteLoopOverflows(cc.chunk, loop_start)])]

\* Compiler::while_statement
WhileStatement(cc) ==
    LET loop_start == ChunkLen(cc.chunk)
    IN  Then(Consume(cc, "LeftParen", "Expected '(' after 'while'."), LAMBDA c0 :
        Then(Expression(c0), LAMBDA c1 :
        Then(Consume(c1, "RightParen", "Expected ')' after condition"), LAMBDA c2 :
        With(WriteJumpIfFalse(c2.chunk, c2.prev.line), LAMBDA exit_jump :
        Then(Statement(Emit(FromWriter(c2, exit_jump), "Pop", c2.prev.line)), LAMBDA c3 :
        Then(FromWriter(LogLoop(c3, loop_start),
                        WriteLoop(c3.chunk, loop_start, c2.prev.line, overflow_checks)),
             LAMBDA c4 :
        Then(FromWriter(c4, PatchJumpToChunkEnd(c4.chunk, exit_jump.start, overflow_checks)),
             LAMBDA c5 : Emit(c5, "Pop", c2.prev.line))))))))

\* the loop of Compiler::block
BlockLoop(cc) ==
    IF Check(cc, "RightBrace") \/ Check(cc, "Eof") THEN cc
    ELSE Then(Declaration(cc), LAMBDA c1 : BlockLoop(c1))

\* Compiler::block
Block(cc) ==
    Then(BlockLoop(cc), LAMBDA c1 : Consume(c1, "RightBrace", "Expected '}' after block"))

\* Compiler::statement
Statement(cc) ==
    IF Check(cc, "Print") THEN PrintStatement(Advance(cc))
    ELSE IF Check(cc, "LeftBrace")
    THEN Then(Block(BeginScope(Advance(cc))), LAMBDA c1 : EndScope(c1))
    ELSE IF Check(cc, "If") THEN IfStatement(Advance(cc))
    ELSE IF Check(cc, "While") THEN WhileStatement(Advance(cc))
    ELSE ExpressionStatement(cc)

\* Compiler::var_declaration
VarDeclaration(cc) ==
    With(ParseVariable(cc, "Expected variable name"), LAMBDA global :
    Then(global.cc, LAMBDA c1 :
    Then(IF Check(c1, "Equal") THEN Expression(Advance(c1))
         ELSE Emit(c1, "Nil", c1.prev.line), LAMBDA c2 :
    Then(Consume(c2, "Semicolon", "Expected ';' after variable declaration."), LAMBDA c3 :
         DefineVariable(c3, global.index)))))

\* the tokens not yet consumed: the current one unless it is Eof, and those not yet scanned
TokensLeft(cc) == (Len(source) + 1 - cc.pos) + (IF Check(cc, "Eof") THEN 0 ELSE 1)

\* Compiler::declaration; the call is recorded in log_decl
\* (where it starts: tokens left, chunk length, locals; and the same where it returns Ok)
Declaration(cc) ==
    LET k == Len(cc.log_decl) + 1
        c0 == [cc EXCEPT !.log_decl = Append(@, [panic_mode |-> cc.panic_mode,
                                                 depth |-> cc.scope_depth,
                                                 left |-> TokensLeft(cc),
                                                 is_var |-> Check(cc, "Var"),
                                                 at |-> ChunkLen(cc.chunk),
                                                 locals |-> Len(cc.locals),
                                                 done |-> FALSE,
                                                 end |-> 0,
                                                 locals_end |-> 0])]
    IN  Then(IF Check(c0, "Var") THEN VarDeclaration(Advance(c0)) ELSE Statement(c0),
             LAMBDA c1 :
             With(IF c1.panic_mode THEN Synchronize(c1) ELSE c1, LAMBDA c2 :
                  [c2 EXCEPT !.log_decl[k].done = TRUE,
                             !.log_decl[k].end = ChunkLen(c2.chunk),
                             !.log_decl[k].locals_end = Len(c2.locals)]))

RECURSIVE PushChain(_, _)
\* compile(): for err in e.chain().rev() { push_current_parse_error(format!("{}", err)) }
PushChain(cc, chain) ==
    IF chain = <<>> THEN cc
    ELSE PushChain(PushCurrentParseError(cc, chain[Len(chain)]),
                   SubSeq(chain, 1, Len(chain) - 1))

\* one turn of the loop of Compiler::compile, the current token not being Eof
CompileLoopBody(cc) ==
    With(Declaration(cc), LAMBDA c1 :
         IF c1.panicked THEN c1
         ELSE IF c1.err # <<>> THEN PushChain([c1 EXCEPT !.err = <<>>], c1.err)
         ELSE c1)

\* the end of compile with the Return left out
CompileEnd_NoReturn(cc) == cc

\* the end of Compiler::compile, after the loop: the Return is written when no error is recorded
CompileEnd(cc) ==
    IF cc.errors # <<>> THEN cc
    ELSE Emit(cc, "Return", cc.current.line)

(***************************************************************************)
(* f64 arithmetic of Value::Number, on exact ratios num/den in lowest      *)
(* terms with den > 0; den = 0 stands for the infinities (num = 1, -1) and *)
(* for NaN (num = 0).                                                      *)
(***************************************************************************)
Abs(n) == IF n < 0 THEN -n ELSE n
Sign(n) == IF n < 0 THEN -1 ELSE IF n > 0 THEN 1 ELSE 0

RECURSIVE Gcd(_, _)
Gcd(a, b) == IF b = 0 THEN a ELSE Gcd(b, a % b)

Ratio(n, d) ==
    IF d = 0 THEN RatioVal(Sign(n), 0)
    ELSE LET g == Gcd(Abs(n), Abs(d))
         IN  RatioVal(Sign(d) * (n \div g), Abs(d) \div g)

IsNaN(a) == a.den = 0 /\ a.num = 0

F64Neg(a) == RatioVal(-a.num, a.den)
F64Add(a, b) ==
    IF a.den = 0 /\ b.den = 0 THEN Ratio(IF a.num = b.num THEN a.num ELSE 0, 0)
    ELSE Ratio(a.num * b.den + b.num * a.den, a.den * b.den)
F64Sub(a, b) == F64Add(a, F64Neg(b))
F64Mul(a, b) == Ratio(a.num * b.num, a.den * b.den)
F64Div(a, b) ==
    IF a.den = 0 /\ b.den = 0 THEN Ratio(0, 0)
    ELSE Ratio(a.num * b.den, a.den * b.num)
F64Eq(a, b) == ~IsNaN(a) /\ ~IsNaN(b) /\ a.num = b.num /\ a.den = b.den
F64Less(a, b) ==
    /\ ~IsNaN(a) /\ ~IsNaN(b)
    /\ IF a.den = 0 /\ b.den = 0 THEN a.num < b.num
       ELSE a.num * b.den < b.num * a.den

(***************************************************************************)
(* Value: ==, < and > as vm.rs uses them                                   *)
(***************************************************************************)
ValueEq(a, b) ==
    /\ a.tag = b.tag
    /\ CASE a.tag = "Number" -> F64Eq(a, b)
         [] a.tag = "String" -> a.str = b.str
         [] a.tag = "Boolean" -> a.bool = b.bool
         [] OTHER -> TRUE

\* enum variants in declaration order, as a derived ordering compares them
VariantIndex(a) ==
    CASE a.tag = "String" -> 0 [] a.tag = "Number" -> 1 [] a.tag = "Nil" -> 2 [] OTHER -> 3

ValueLess(a, b) ==
    IF a.tag # b.tag THEN VariantIndex(a) < VariantIndex(b)
    ELSE CASE a.tag = "Number" -> F64Less(a, b)
           [] a.tag = "Boolean" -> ~a.bool /\ b.bool
           [] a.tag = "String" -> FALSE   \* the model orders no two strings
           [] OTHER -> FALSE

(***************************************************************************)
(* instruction.rs: InstructionReader                                       *)
(***************************************************************************)
\* InstructionReader::read_next at ip: kind is "none" (Ok(None)), "err" or "instr";
\* ip is the reader's ip afterwards
ReadNext(ch, ip) ==
    LET b0 == ChunkRead(ch, ip)
        ln == ChunkLine(ch, ip)
        op == OpFromByte(b0.byte)
        b1 == ChunkRead(ch, ip + 1)
        b2 == ChunkRead(ch, ip + 2)
        none == [kind |-> "none", op |-> "", operand1 |-> -1, operand2 |-> -1,
                 offset |-> ip, line |-> 0, ip |-> ip]
    IN  IF ~b0.ok THEN none
        ELSE IF ~ln.ok THEN [none EXCEPT !.kind = "err"]
        ELSE IF op = "" THEN [none EXCEPT !.kind = "err", !.ip = ip + 1]
        ELSE IF Arity(op) = 1
        THEN IF ~b1.ok THEN [none EXCEPT !.kind = "err", !.ip = ip + 1]
             ELSE [kind |-> "instr", op |-> op, operand1 |-> b1.byte, operand2 |-> -1,
                   offset |-> ip, line |-> ln.line, ip |-> ip + 2]
        ELSE IF Arity(op) = 2
        THEN IF ~b1.ok THEN [none EXCEPT !.kind = "err", !.ip = ip + 1]
             ELSE IF ~b2.ok THEN [none EXCEPT !.kind = "err", !.ip = ip + 2]
             ELSE [kind |-> "instr", op |-> op, operand1 |-> b1.byte, operand2 |-> b2.byte,
                   offset |-> ip, line |-> ln.line, ip |-> ip + 3]
        ELSE [kind |-> "instr", op |-> op, operand1 |-> -1, operand2 |-> -1,
              offset |-> ip, line |-> ln.line, ip |-> ip + 1]

\* InstructionReader::get_const
GetConst(ch, index) == ChunkGetConstant(ch, index)

\* InstructionReader::set_ip: ok = FALSE is the Err; new_ip is a usize
SetIp(ch, ip, new_ip) ==
    IF UsizeLess(ChunkLen(ch), new_ip)
    THEN [ok |-> FALSE, panic |-> FALSE, ip |-> ip]
    ELSE [ok |-> TRUE, panic |-> FALSE, ip |-> new_ip]

\* InstructionReader::inc_ip
IncIp(ch, ip, inc) == SetIp(ch, ip, ip + inc)

\* InstructionReader::dec_ip: self.ip - dec on usize
DecIp(ch, ip, dec, checks) ==
    LET d == UsizeSub(ip, dec)
    IN  IF checks /\ d.overflow
        THEN [ok |-> FALSE, panic |-> TRUE, ip |-> ip]
        ELSE SetIp(ch, ip, d.val)

(***************************************************************************)
(* stack.rs: Stack<T>, the bottom of the stack first                       *)
(***************************************************************************)
StackPush(st, v) == Append(st, v)
\* Stack::pop: ok = FALSE is Err("Stack underflow")
StackPop(st) ==
    IF Len(st) = 0 THEN [ok |-> FALSE, stack |-> st, value |-> NilVal]
    ELSE [ok |-> TRUE, stack |-> SubSeq(st, 1, Len(st) - 1), value |-> st[Len(st)]]
\* Stack::peek
StackPeek(st, pos) ==
    IF pos + 1 > Len(st) THEN [ok |-> FALSE, value |-> NilVal]
    ELSE [ok |-> TRUE, value |-> st[Len(st) - (pos + 1) + 1]]
\* Stack::peek_front
StackPeekFront(st, pos) ==
    IF pos >= Len(st) THEN [ok |-> FALSE, value |-> NilVal]
    ELSE [ok |-> TRUE, value |-> st[pos + 1]]
\* Stack::set_front
StackSetFront(st, pos, v) ==
    IF pos >= Len(st) THEN [ok |-> FALSE, stack |-> st]
    ELSE [ok |-> TRUE, stack |-> [st EXCEPT ![pos + 1] = v]]

(***************************************************************************)
(* vm.rs: Vm.  stack and globals are the struct's fields; ip is the ip of  *)
(* the InstructionReader that run() creates; status is where run() is      *)
(* ("idle", "running", "ok", "error", "panic"); out is what was printed;   *)
(* last is the instruction dispatched last; error is the Err run returned, *)
(* details telling whether it carries (instruction, offset, line).         *)
(***************************************************************************)
NoInstruction ==
    [kind |-> "none", op |-> "", operand1 |-> -1, operand2 |-> -1,
     offset |-> 0, line |-> 0, ip |-> 0]

NoVmError == [msg |-> "", details |-> FALSE]

\* Vm::new with trace = false
VmNew ==
    [stack |-> <<>>, globals |-> {}, ip |-> 0, status |-> "idle", out |-> <<>>,
     last |-> NoInstruction, error |-> NoVmError, steps |-> 0, runs |-> 0]

\* bail!(VmError::new(msg, (instruction, offset, line))) and the errors without details
VmFail(v, msg, details) ==
    [v EXCEPT !.status = "error", !.error = [msg |-> msg, details |-> details]]

\* HashMap::get / contains_key / insert on the globals
GlobalDefined(g, name) == \E p \in g : p.name = name
GlobalValue(g, name) == (CHOOSE p \in g : p.name = name).value
GlobalInsert(g, name, value) ==
    {p \in g : p.name # name} \cup {[name |-> name, value |-> value]}

\* Vm::get_global_name: ok = FALSE carries the error
GetGlobalName(ch, i) ==
    LET k == GetConst(ch, i.operand1)
    IN  IF i.operand1 < 0 THEN [ok |-> FALSE, name |-> "", msg |-> "Operand 1 missing"]
        ELSE IF ~k.ok THEN [ok |-> FALSE, name |-> "", msg |-> "No global at index"]
        ELSE IF k.value.tag # "String"
        THEN [ok |-> FALSE, name |-> "", msg |-> "Operand 1 missing"]
        ELSE [ok |-> TRUE, name |-> k.value.str, msg |-> ""]

\* Vm::read_operands_as_usize
ReadOperandsAsUsize(i) == i.operand1 * 256 + i.operand2

\* Vm::binary_op with the closure op given by name; the operands are popped before op runs
ApplyBinary(name, a, b) ==
    CASE name = "Equal" -> [ok |-> TRUE, value |-> BooleanVal(ValueEq(a, b))]
      [] name = "Greater" -> [ok |-> TRUE, value |-> BooleanVal(ValueLess(b, a))]
      [] name = "Less" -> [ok |-> TRUE, value |-> BooleanVal(ValueLess(a, b))]
      [] name = "Concat" ->
            IF a.tag = "String" /\ b.tag = "String"
            THEN [ok |-> TRUE, value |-> StringVal(a.str \o b.str)]
            ELSE [ok |-> FALSE, value |-> NilVal]
      [] OTHER ->   \* num_binary_op
            IF a.tag = "Number" /\ b.tag = "Number"
            THEN [ok |-> TRUE,
                  value |-> CASE name = "Add" -> F64Add(a, b)
                              [] name = "Subtract" -> F64Sub(a, b)
                              [] name = "Multiply" -> F64Mul(a, b)
                              [] OTHER -> F64Div(a, b)]
            ELSE [ok |-> FALSE, value |-> NilVal]

\* binary_op with the closure given the operands in the other order
BinaryOp_Swapped(v, name, msg) ==
    LET pb == StackPop(v.stack)
        pa == StackPop(pb.stack)
        r == ApplyBinary(name, pb.value, pa.value)
    IN  IF ~pb.ok THEN VmFail(v, "Stack underflow", FALSE)
        ELSE IF ~pa.ok THEN VmFail([v EXCEPT !.stack = pb.stack], "Stack underflow", FALSE)
        ELSE IF ~r.ok THEN VmFail([v EXCEPT !.stack = pa.stack], msg, FALSE)
        ELSE [v EXCEPT !.stack = StackPush(pa.stack, r.value)]

BinaryOp(v, name, msg) ==
    LET pb == StackPop(v.stack)
        pa == StackPop(pb.stack)
        r == ApplyBinary(name, pa.value, pb.value)
    IN  IF ~pb.ok THEN VmFail(v, "Stack underflow", FALSE)
        ELSE IF ~pa.ok THEN VmFail([v EXCEPT !.stack = pb.stack], "Stack underflow", FALSE)
        ELSE IF ~r.ok THEN VmFail([v EXCEPT !.stack = pa.stack], msg, FALSE)
        ELSE [v EXCEPT !.stack = StackPush(pa.stack, r.value)]

NumBinaryOp(v, name) ==
    BinaryOp(v, name, "Numberic operation attempted on non-numbeic values")

(***************************************************************************)
(* vm.rs: the arms of the match in Vm::run, on the Vm after read_next      *)
(***************************************************************************)
ExecConstant(v, ch, i) ==
    LET k == GetConst(ch, i.operand1)
    IN  IF i.operand1 < 0 THEN VmFail(v, "Opcode has no operand", FALSE)
        ELSE IF ~k.ok THEN VmFail(v, "Failed to get constant at index", TRUE)
        ELSE [v EXCEPT !.stack = StackPush(@, k.value)]

ExecReturn(v, ch, i) == [v EXCEPT !.status = "ok"]

ExecNegate(v, ch, i) ==
    LET p == StackPop(v.stack)
    IN  IF ~p.ok THEN VmFail(v, "Stack underflow", FALSE)
        ELSE IF p.value.tag # "Number"
        THEN VmFail([v EXCEPT !.stack = p.stack], "Attempt to negate a non-numeric value", TRUE)
        ELSE [v EXCEPT !.stack = StackPush(p.stack, F64Neg(p.value))]

ExecAdd(v, ch, i) ==
    LET a == StackPeek(v.stack, 1)
        b == StackPeek(v.stack, 0)
        msg == "Attempted add or concatenate on non-numeric or non-string operands"
    IN  IF ~a.ok \/ ~b.ok THEN VmFail(v, "Stack underflow", FALSE)
        ELSE IF a.value.tag = "Number" /\ b.value.tag = "Number" THEN NumBinaryOp(v, "Add")
        ELSE IF a.value.tag = "String" /\ b.value.tag = "String" THEN BinaryOp(v, "Concat", msg)
        ELSE VmFail(v, msg, FALSE)

ExecSubtract(v, ch, i) == NumBinaryOp(v, "Subtract")
ExecMultiply(v, ch, i) == NumBinaryOp(v, "Multiply")
ExecDivide(v, ch, i) == NumBinaryOp(v, "Divide")
ExecNil(v, ch, i) == [v EXCEPT !.stack = StackPush(@, NilVal)]
ExecTrue(v, ch, i) == [v EXCEPT !.stack = StackPush(@, BooleanVal(TRUE))]
ExecFalse(v, ch, i) == [v EXCEPT !.stack = StackPush(@, BooleanVal(FALSE))]

ExecNot(v, ch, i) ==
    LET p == StackPop(v.stack)
    IN  IF ~p.ok THEN VmFail(v, "Stack underflow", FALSE)
        ELSE IF p.value.tag # "Boolean"
        THEN VmFail([v EXCEPT !.stack = p.stack], "Attempted not on a non-bool value", TRUE)
        ELSE [v EXCEPT !.stack = StackPush(p.stack, BooleanVal(~p.value.bool))]

ExecEqual(v, ch, i) == BinaryOp(v, "Equal", "")
ExecGreater(v, ch, i) == BinaryOp(v, "Greater", "")
ExecLess(v, ch, i) == BinaryOp(v, "Less", "")

ExecPrint(v, ch, i) ==
    LET p == StackPop(v.stack)
    IN  IF ~p.ok THEN VmFail(v, "Stack underflow", FALSE)
        ELSE [v EXCEPT !.stack = p.stack, !.out = Append(@, p.value)]

ExecPop(v, ch, i) ==
    LET p == StackPop(v.stack)
    IN  IF ~p.ok THEN VmFail(v, "Stack underflow", FALSE)
        ELSE [v EXCEPT !.stack = p.stack]

ExecDefineGlobal(v, ch, i) ==
    LET n == GetGlobalName(ch, i)
        top == StackPeek(v.stack, 0)
    IN  IF ~n.ok THEN VmFail(v, n.msg, FALSE)
        ELSE IF ~top.ok THEN VmFail(v, "Stack underflow", FALSE)
        ELSE [v EXCEPT !.globals = GlobalInsert(@, n.name, top.value),
                       !.stack = StackPop(v.stack).stack]

ExecGetGlobal(v, ch, i) ==
    LET n == GetGlobalName(ch, i)
    IN  IF ~n.ok THEN VmFail(v, n.msg, FALSE)
        ELSE IF ~GlobalDefined(v.globals, n.name) THEN VmFail(v, "Undefined variable", FALSE)
        ELSE [v EXCEPT !.stack = StackPush(@, GlobalValue(v.globals, n.name))]

\* SetGlobal without its contains_key test
ExecSetGlobal_Create(v, ch, i) ==
    LET n == GetGlobalName(ch, i)
        top == StackPeek(v.stack, 0)
    IN  IF ~n.ok THEN VmFail(v, n.msg, FALSE)
        ELSE IF ~top.ok THEN VmFail(v, "Stack underflow", FALSE)
        ELSE [v EXCEPT !.globals = GlobalInsert(@, n.name, top.value)]

\* SetGlobal popping the value it assigned
ExecSetGlobal_Pop(v, ch, i) ==
    LET n == GetGlobalName(ch, i)
        top == StackPeek(v.stack, 0)
    IN  IF ~n.ok THEN VmFail(v, n.msg, FALSE)
        ELSE IF ~GlobalDefined(v.globals, n.name) THEN VmFail(v, "Undefined variable", FALSE)
        ELSE IF ~top.ok THEN VmFail(v, "Stack underflow", FALSE)
        ELSE [v EXCEPT !.globals = GlobalInsert(@, n.name, top.value),
                       !.stack = StackPop(v.stack).stack]

ExecSetGlobal(v, ch, i) ==
    LET n == GetGlobalName(ch, i)
        top == StackPeek(v.stack, 0)
    IN  IF ~n.ok THEN VmFail(v, n.msg, FALSE)
        ELSE IF ~GlobalDefined(v.globals, n.name) THEN VmFail(v, "Undefined variable", FALSE)
        ELSE IF ~top.ok THEN VmFail(v, "Stack underflow", FALSE)
        ELSE [v EXCEPT !.globals = GlobalInsert(@, n.name, top.value)]

ExecGetLocal(v, ch, i) ==
    LET val == StackPeekFront(v.stack, i.operand1)
    IN  IF i.operand1 < 0 THEN VmFail(v, "Operand 1 missing", FALSE)
        ELSE IF ~val.ok THEN VmFail(v, "Stack overflow", FALSE)
        ELSE [v EXCEPT !.stack = StackPush(@, val.value)]

ExecSetLocal(v, ch, i) ==
    LET top == StackPeek(v.stack, 0)
        set == StackSetFront(v.stack, i.operand1, top.value)
    IN  IF i.operand1 < 0 THEN VmFail(v, "Operand 1 missing", FALSE)
        ELSE IF ~top.ok THEN VmFail(v, "Stack underflow", FALSE)
        ELSE IF ~set.ok THEN VmFail(v, "Stack overflow", FALSE)
        ELSE [v EXCEPT !.stack = set.stack]

\* the Result of a reader ip move, taken with `?`
AfterIpMove(v, r) ==
    IF r.panic THEN [v EXCEPT !.status = "panic"]
    ELSE IF ~r.ok THEN VmFail(v, "Attempt to set ip beyond chunk", FALSE)
    ELSE [v EXCEPT !.ip = r.ip]

\* Jump leaving the ip after its operands
ExecJump_NoMove(v, ch, i) == v

\* Jump going back by its operand, as Loop does
ExecJump_Back(v, ch, i) ==
    AfterIpMove(v, DecIp(ch, v.ip, ReadOperandsAsUsize(i), overflow_checks))

ExecJump(v, ch, i) == AfterIpMove(v, IncIp(ch, v.ip, ReadOperandsAsUsize(i)))

\* JumpIfFalse taking every value but false for true
ExecJumpIfFalse_AnyValue(v, ch, i) ==
    LET top == StackPeek(v.stack, 0)
    IN  IF ~top.ok THEN VmFail(v, "Stack underflow", FALSE)
        ELSE IF top.value = BooleanVal(FALSE)
        THEN AfterIpMove(v, IncIp(ch, v.ip, ReadOperandsAsUsize(i)))
        ELSE v

ExecJumpIfFalse(v, ch, i) ==
    LET top == StackPeek(v.stack, 0)
    IN  IF ~top.ok THEN VmFail(v, "Stack underflow", FALSE)
        ELSE IF top.value.tag # "Boolean"
        THEN VmFail(v, "Can't jump. Non boolean value found on stack", FALSE)
        ELSE IF ~top.value.bool
        THEN AfterIpMove(v, IncIp(ch, v.ip, ReadOperandsAsUsize(i)))
        ELSE v

\* Loop leaving the ip after its operands
ExecLoop_NoMove(v, ch, i) == v

ExecLoop(v, ch, i) ==
    AfterIpMove(v, DecIp(ch, v.ip, ReadOperandsAsUsize(i), overflow_checks))

(***************************************************************************)
(* The sources compiled: every sequence of at most MaxSrcLen scan results  *)
(* over SmallAlphabet, and the programs of Programs.  All on line 1.       *)
(***************************************************************************)
T(type, lexeme) == Tok(type, lexeme, 1)
Var == T("Var", "var")
Id(name) == T("Identifier", name)
Num(lexeme) == T("Number", lexeme)
Str(lexeme) == T("String", lexeme)
Eq == T("Equal", "=")
Semi == T("Semicolon", ";")
LBrace == T("LeftBrace", "{")
RBrace == T("RightBrace", "}")
LParen == T("LeftParen", "(")
RParen == T("RightParen", ")")
KwPrint == T("Print", "print")
KwWhile == T("While", "while")
KwIf == T("If", "if")
KwElse == T("Else", "else")
KwTrue == T("True", "true")
KwFalse == T("False", "false")
KwNil == T("Nil", "nil")
KwAnd == T("And", "and")
KwOr == T("Or", "or")
Plus == T("Plus", "+")
Minus == T("Minus", "-")
Star == T("Star", "*")
Slash == T("Slash", "/")
Bang == T("Bang", "!")
Less == T("Less", "<")
Greater == T("Greater", ">")
EqualEqual == T("EqualEqual", "==")
BangEqual == T("BangEqual", "!=")
GreaterEqual == T("GreaterEqual", ">=")
LessEqual == T("LessEqual", "<=")
BadChar == T("ScanError", "Unexpected character.")

SmallAlphabet == {KwPrint, Semi, Num("1"), Var, Id("a"), Eq, LBrace, RBrace, BadChar}

RECURSIVE SeqsOfLen(_, _)
SeqsOfLen(S, n) ==
    IF n = 0 THEN {<<>>}
    ELSE {Append(s, t) : s \in SeqsOfLen(S, n - 1), t \in S}

SmallSources == UNION {SeqsOfLen(SmallAlphabet, n) : n \in 0..MaxSrcLen}

\* var i = 0; while (i < 3) { print i; i = i + 1; }
CountingLoop ==
    << Var, Id("i"), Eq, Num("0"), Semi,
       KwWhile, LParen, Id("i"), Less, Num("3"), RParen,
       LBrace, KwPrint, Id("i"), Semi, Id("i"), Eq, Id("i"), Plus, Num("1"), Semi, RBrace >>

\* var a = 1; var b = 2; print a + b; a = a + 10; print a;
GlobalsProgram ==
    << Var, Id("a"), Eq, Num("1"), Semi, Var, Id("b"), Eq, Num("2"), Semi,
       KwPrint, Id("a"), Plus, Id("b"), Semi,
       Id("a"), Eq, Id("a"), Plus, Num("10"), Semi, KwPrint, Id("a"), Semi >>

\* a + 1 = 2;
AssignToSum == << Id("a"), Plus, Num("1"), Eq, Num("2"), Semi >>

\* the literal true or false
BoolLit(b) == IF b THEN KwTrue ELSE KwFalse

\* print a and b or c;   and   print a or b and c;
AndThenOr(a, b, x) == << KwPrint, BoolLit(a), KwAnd, BoolLit(b), KwOr, BoolLit(x), Semi >>
OrThenAnd(a, b, x) == << KwPrint, BoolLit(a), KwOr, BoolLit(b), KwAnd, BoolLit(x), Semi >>

LogicalPrograms ==
    {AndThenOr(a, b, x) : a, b, x \in BOOLEAN} \cup {OrThenAnd(a, b, x) : a, b, x \in BOOLEAN}

ArithmeticOps == {Plus, Minus, Star, Slash}

\* print 8 op1 4 op2 2;
TwoOperators(op1, op2) == << KwPrint, Num("8"), op1, Num("4"), op2, Num("2"), Semi >>

ArithmeticPrograms == {TwoOperators(op1, op2) : op1, op2 \in ArithmeticOps}

\* print 1 + 2 * 3; print (1 + 2) * 3;
GroupingProgram ==
    << KwPrint, Num("1"), Plus, Num("2"), Star, Num("3"), Semi,
       KwPrint, LParen, Num("1"), Plus, Num("2"), RParen, Star, Num("3"), Semi >>

\* var x = 0; print a and (x = 1); print x;   and the same with or
ShortCircuit(a, op) ==
    << Var, Id("x"), Eq, Num("0"), Semi,
       KwPrint, BoolLit(a), op, LParen, Id("x"), Eq, Num("1"), RParen, Semi,
       KwPrint, Id("x"), Semi >>

ShortCircuitPrograms == {ShortCircuit(a, op) : a \in BOOLEAN, op \in {KwAnd, KwOr}}

\* if (cond) print 1; else print 2; print 3;   and, without the else,
\* if (cond) print 1; print 3;
IfElse(cond) ==
    << KwIf, LParen, BoolLit(cond), RParen, KwPrint, Num("1"), Semi,
       KwElse, KwPrint, Num("2"), Semi, KwPrint, Num("3"), Semi >>
IfOnly(cond) ==
    << KwIf, LParen, BoolLit(cond), RParen, KwPrint, Num("1"), Semi,
       KwPrint, Num("3"), Semi >>

IfPrograms == {IfElse(cond) : cond \in BOOLEAN} \cup {IfOnly(cond) : cond \in BOOLEAN}

\* print a op b; with number literals a and b
Digits == <<"0", "1", "2">>
Compare(a, op, b) == << KwPrint, Num(Digits[a + 1]), op, Num(Digits[b + 1]), Semi >>

ComparedNumbers == 0..2
ComparisonPrograms ==
    {Compare(a, op, b) : a, b \in ComparedNumbers, op \in {BangEqual, GreaterEqual, LessEqual}}

Programs ==
    ComparisonPrograms \cup LogicalPrograms \cup ArithmeticPrograms \cup ShortCircuitPrograms \cup IfPrograms \cup
    { GlobalsProgram, GroupingProgram,
      CountingLoop,
      \* while (false) print 1;
      << KwWhile, LParen, KwFalse, RParen, KwPrint, Num("1"), Semi >>,
      \* nil; while (false) print 1;
      << KwNil, Semi, KwWhile, LParen, KwFalse, RParen, KwPrint, Num("1"), Semi >>,
      \* { var a = 1; { var b = 2; } print a; }
      << LBrace, Var, Id("a"), Eq, Num("1"), Semi,
         LBrace, Var, Id("b"), Eq, Num("2"), Semi, RBrace,
         KwPrint, Id("a"), Semi, RBrace >>,
      \* { var a = 1; { var a = 2; print a; } }
      << LBrace, Var, Id("a"), Eq, Num("1"), Semi,
         LBrace, Var, Id("a"), Eq, Num("2"), Semi, KwPrint, Id("a"), Semi, RBrace, RBrace >>,
      \* { var a = 1; { var a = a; } }
      << LBrace, Var, Id("a"), Eq, Num("1"), Semi,
         LBrace, Var, Id("a"), Eq, Id("a"), Semi, RBrace, RBrace >>,
      \* { var a = a; }
      << LBrace, Var, Id("a"), Eq, Id("a"), Semi, RBrace >>,
      \* { var a = 1; var b = 2; a = b; print a; }
      << LBrace, Var, Id("a"), Eq, Num("1"), Semi, Var, Id("b"), Eq, Num("2"), Semi,
         Id("a"), Eq, Id("b"), Semi, KwPrint, Id("a"), Semi, RBrace >>,
      \* { var a = 1; while (a < 2) { var b = a + 1; a = b; } print a; }
      << LBrace, Var, Id("a"), Eq, Num("1"), Semi,
         KwWhile, LParen, Id("a"), Less, Num("2"), RParen,
         LBrace, Var, Id("b"), Eq, Id("a"), Plus, Num("1"), Semi, Id("a"), Eq, Id("b"), Semi, RBrace,
         KwPrint, Id("a"), Semi, RBrace >>,
      \* if (true and false) print "x"; else print "y";
      << KwIf, LParen, KwTrue, KwAnd, KwFalse, RParen, KwPrint, Str("\"x\""), Semi,
         KwElse, KwPrint, Str("\"y\""), Semi >>,
      \* if (false or true) print 1;
      << KwIf, LParen, KwFalse, KwOr, KwTrue, RParen, KwPrint, Num("1"), Semi >>,
      \* if (true) print ;
      << KwIf, LParen, KwTrue, RParen, KwPrint, Semi >>,
      \* print -(1 - 2) / 2; print !(1 == 2); print 2 > 1; print nil;
      << KwPrint, Minus, LParen, Num("1"), Minus, Num("2"), RParen, Slash, Num("2"), Semi,
         KwPrint, Bang, LParen, Num("1"), EqualEqual, Num("2"), RParen, Semi,
         KwPrint, Num("2"), Greater, Num("1"), Semi, KwPrint, KwNil, Semi >>,
      \* print "foo" + "bar";
      << KwPrint, Str("\"foo\""), Plus, Str("\"bar\""), Semi >>,
      \* print -"x";
      << KwPrint, Minus, Str("\"x\""), Semi >>,
      \* print ; print ;
      << KwPrint, Semi, KwPrint, Semi >>,
      \* print 1 print 1 ; print ;
      << KwPrint, Num("1"), KwPrint, Num("1"), Semi, KwPrint, Semi >>,
      AssignToSum }

Sources == SmallSources \cup Programs

\* hist before any call: issued = the (index, value) pairs add_constant has given out,
\* since_sync = errors appended since synchronize was last called, suppressed = reports
\* made in panic mode, last = the call made last, ops = the calls made
HistNone == [issued |-> <<>>, since_sync |-> 0, suppressed |-> 0, last |-> "", ops |-> 0]
WLastNone == [op |-> "", ok |-> TRUE, start |-> 0, index |-> 0, value |-> NilVal, before |-> NewChunk]

(***************************************************************************)
(* Spec: compile a source, then run the chunk on a new Vm.                 *)
(***************************************************************************)
Init ==
    /\ source \in Sources
    /\ overflow_checks \in BOOLEAN
    /\ c = NewCompiler
    /\ cstatus = "new"
    /\ vm = VmNew
    /\ w = NewChunk
    /\ wlast = WLastNone
    /\ hist = HistNone
    /\ scanner = ScannerIdle

\* Compiler::compile up to its loop: self.advance()
CompileBegin ==
    /\ cstatus = "new"
    /\ c' = Advance(c)
    /\ cstatus' = "compiling"
    /\ UNCHANGED <<scanner, source, overflow_checks, vm, w, wlast, hist>>

\* Compiler::compile, one turn of the loop: matches(Eof) fails, declaration(), the Err pushed
CompileDeclaration ==
    /\ cstatus = "compiling"
    /\ ~Check(c, "Eof")
    /\ c' = CompileLoopBody(c)
    /\ cstatus' = IF c'.panicked THEN "panic" ELSE "compiling"
    /\ UNCHANGED <<scanner, source, overflow_checks, vm, w, wlast, hist>>

\* Compiler::compile from the turn where matches(Eof) holds to its return
CompileFinish ==
    /\ cstatus = "compiling"
    /\ Check(c, "Eof")
    /\ c' = CompileEnd(Advance(c))
    /\ cstatus' = IF c'.errors # <<>> THEN "errors" ELSE "chunk"
    /\ UNCHANGED <<scanner, source, overflow_checks, vm, w, wlast, hist>>

\* Vm::run up to its loop: InstructionReader::new(chunk)
RunBegin ==
    /\ cstatus = "chunk"
    /\ vm.status = "idle"
    /\ vm' = [vm EXCEPT !.status = "running", !.ip = 0, !.runs = 1]
    /\ UNCHANGED <<scanner, source, overflow_checks, c, cstatus, w, wlast, hist>>

\* the Vm when read_next has returned instruction i
Fetched(i) == [vm EXCEPT !.ip = i.ip, !.last = i, !.steps = @ + 1]

\* read_next returns an instruction with this opcode
Dispatching(op) ==
    /\ cstatus = "chunk"
    /\ vm.status = "running"
    /\ vm.steps < MaxVmSteps
    /\ ReadNext(c.chunk, vm.ip).kind = "instr"
    /\ ReadNext(c.chunk, vm.ip).op = op

Fetch == ReadNext(c.chunk, vm.ip)
Rest == <<scanner, source, overflow_checks, c, cstatus, w, wlast, hist>>

RunConstant == Dispatching("Constant") /\ vm' = ExecConstant(Fetched(Fetch), c.chunk, Fetch) /\ UNCHANGED Rest
RunReturn == Dispatching("Return") /\ vm' = ExecReturn(Fetched(Fetch), c.chunk, Fetch) /\ UNCHANGED Rest
RunNegate == Dispatching("Negate") /\ vm' = ExecNegate(Fetched(Fetch), c.chunk, Fetch) /\ UNCHANGED Rest
RunAdd == Dispatching("Add") /\ vm' = ExecAdd(Fetched(Fetch), c.chunk, Fetch) /\ UNCHANGED Rest
RunSubtract == Dispatching("Subtract") /\ vm' = ExecSubtract(Fetched(Fetch), c.chunk, Fetch) /\ UNCHANGED Rest
RunMultiply == Dispatching("Multiply") /\ vm' = ExecMultiply(Fetched(Fetch), c.chunk, Fetch) /\ UNCHANGED Rest
RunDivide == Dispatching("Divide") /\ vm' = ExecDivide(Fetched(Fetch), c.chunk, Fetch) /\ UNCHANGED Rest
RunNil == Dispatching("Nil") /\ vm' = ExecNil(Fetched(Fetch), c.chunk, Fetch) /\ UNCHANGED Rest
RunTrue == Dispatching("True") /\ vm' = ExecTrue(Fetched(Fetch), c.chunk, Fetch) /\ UNCHANGED Rest
RunFalse == Dispatching("False") /\ vm' = ExecFalse(Fetched(Fetch), c.chunk, Fetch) /\ UNCHANGED Rest
RunNot == Dispatching("Not") /\ vm' = ExecNot(Fetched(Fetch), c.chunk, Fetch) /\ UNCHANGED Rest
RunEqual == Dispatching("Equal") /\ vm' = ExecEqual(Fetched(Fetch), c.chunk, Fetch) /\ UNCHANGED Rest
RunGreater == Dispatching("Greater") /\ vm' = ExecGreater(Fetched(Fetch), c.chunk, Fetch) /\ UNCHANGED Rest
RunLess == Dispatching("Less") /\ vm' = ExecLess(Fetched(Fetch), c.chunk, Fetch) /\ UNCHANGED Rest
RunPrint == Dispatching("Print") /\ vm' = ExecPrint(Fetched(Fetch), c.chunk, Fetch) /\ UNCHANGED Rest
RunPop == Dispatching("Pop") /\ vm' = ExecPop(Fetched(Fetch), c.chunk, Fetch) /\ UNCHANGED Rest
RunDefineGlobal == Dispatching("DefineGlobal") /\ vm' = ExecDefineGlobal(Fetched(Fetch), c.chunk, Fetch) /\ UNCHANGED Rest
RunGetGlobal == Dispatching("GetGlobal") /\ vm' = ExecGetGlobal(Fetched(Fetch), c.chunk, Fetch) /\ UNCHANGED Rest
RunSetGlobal == Dispatching("SetGlobal") /\ vm' = ExecSetGlobal(Fetched(Fetch), c.chunk, Fetch) /\ UNCHANGED Rest
RunGetLocal == Dispatching("GetLocal") /\ vm' = ExecGetLocal(Fetched(Fetch), c.chunk, Fetch) /\ UNCHANGED Rest
RunSetLocal == Dispatching("SetLocal") /\ vm' = ExecSetLocal(Fetched(Fetch), c.chunk, Fetch) /\ UNCHANGED Rest
RunJump == Dispatching("Jump") /\ vm' = ExecJump(Fetched(Fetch), c.chunk, Fetch) /\ UNCHANGED Rest
RunJumpIfFalse == Dispatching("JumpIfFalse") /\ vm' = ExecJumpIfFalse(Fetched(Fetch), c.chunk, Fetch) /\ UNCHANGED Rest
RunLoop == Dispatching("Loop") /\ vm' = ExecLoop(Fetched(Fetch), c.chunk, Fetch) /\ UNCHANGED Rest

\* read_next returns Ok(None), which ends run with Ok(()), or Err, which ends it with the
\* Err.  A chunk that compile returns ends in Return, so no run of Spec comes here; the
\* runs of SpecVm do.
RunReadEnd ==
    /\ cstatus = "chunk"
    /\ vm.status = "running"
    /\ Fetch.kind # "instr"
    /\ vm' = IF Fetch.kind = "none" THEN [vm EXCEPT !.status = "ok"]
             ELSE VmFail([vm EXCEPT !.ip = Fetch.ip], "Failed to read code byte", FALSE)
    /\ UNCHANGED Rest

Next ==
    \/ CompileBegin \/ CompileDeclaration \/ CompileFinish
    \/ RunBegin
    \/ RunConstant \/ RunReturn \/ RunNegate \/ RunAdd \/ RunSubtract \/ RunMultiply
    \/ RunDivide \/ RunNil \/ RunTrue \/ RunFalse \/ RunNot \/ RunEqual \/ RunGreater
    \/ RunLess \/ RunPrint \/ RunPop \/ RunDefineGlobal \/ RunGetGlobal \/ RunSetGlobal
    \/ RunGetLocal \/ RunSetLocal \/ RunJump \/ RunJumpIfFalse \/ RunLoop

Spec == Init /\ [][Next]_vars

\* the steps of Vm::run
NextRun ==
    \/ RunBegin
    \/ RunConstant \/ RunReturn \/ RunNegate \/ RunAdd \/ RunSubtract \/ RunMultiply
    \/ RunDivide \/ RunNil \/ RunTrue \/ RunFalse \/ RunNot \/ RunEqual \/ RunGreater
    \/ RunLess \/ RunPrint \/ RunPop \/ RunDefineGlobal \/ RunGetGlobal \/ RunSetGlobal
    \/ RunGetLocal \/ RunSetLocal \/ RunJump \/ RunJumpIfFalse \/ RunLoop

\* run is a loop that nothing outside it holds up: once compile has returned a chunk, the
\* next instruction is read and executed as long as there is one
SpecRunFair == Spec /\ WF_vars(NextRun)

(***************************************************************************)
(* SpecWriter: an InstructionWriter driven call by call.  It starts on a   *)
(* chunk that PoolSize calls of write_const have filled, so that the calls *)
(* made here meet a constant pool around the 256 that one byte can index.  *)
(***************************************************************************)
PoolSizes == {0, U8Max - 1, U8Max, U8Max + 1}

WriterValues == {StringVal("a"), StringVal("b")}

RECURSIVE FillRange(_, _, _)
\* write_const(Number(i), 1) for i = lo .. hi-1 on the chunk of p, the indices that
\* add_constant gave being added to p.issued (p is evaluated before the range is split)
FillRange(p, lo, hi) ==
    IF hi <= lo \/ Len(p.issued) < 0 THEN p
    ELSE IF hi = lo + 1
    THEN [chunk |-> WriteConst(p.chunk, NumberVal(lo), 1).chunk,
          issued |-> Append(p.issued, [index |-> ChunkAddConstant(p.chunk, NumberVal(lo)).index,
                                       value |-> NumberVal(lo)])]
    ELSE FillRange(FillRange(p, lo, (lo + hi) \div 2), (lo + hi) \div 2, hi)

\* the chunk after n calls of write_const on a new writer
PreFill(n) == FillRange([chunk |-> NewChunk, issued |-> <<>>], 0, n)

InitWriter ==
    /\ \E n \in PoolSizes :
          /\ w = PreFill(n).chunk
          /\ hist = [HistNone EXCEPT !.issued = PreFill(n).issued]
          /\ scanner = ScannerIdle
    /\ wlast = WLastNone
    /\ source = <<>>
    /\ overflow_checks = FALSE
    /\ c = NewCompiler
    /\ cstatus = "new"
    /\ vm = VmNew

\* InstructionWriter::write_const(v, 1)
WWriteConst(v) ==
    /\ hist.ops < MaxWriterOps
    /\ w' = WriteConst(w, v, 1).chunk
    /\ wlast' = [op |-> "write_const", ok |-> WriteConst(w, v, 1).ok,
                 start |-> WriteConst(w, v, 1).start,
                 index |-> ChunkAddConstant(w, v).index, value |-> v, before |-> w]
    /\ hist' = [hist EXCEPT !.ops = @ + 1, !.last = "write_const",
                            !.issued = Append(@, [index |-> ChunkAddConstant(w, v).index,
                                                  value |-> v])]
    /\ UNCHANGED <<scanner, source, overflow_checks, c, cstatus, vm>>

\* InstructionWriter::add_constant(v), as Compiler::identifier_constant calls it
WAddConstant(v) ==
    /\ hist.ops < MaxWriterOps
    /\ w' = WriterAddConstant(w, v).chunk
    /\ wlast' = [op |-> "add_constant", ok |-> TRUE, start |-> 0,
                 index |-> WriterAddConstant(w, v).index, value |-> v, before |-> w]
    /\ hist' = [hist EXCEPT !.ops = @ + 1, !.last = "add_constant",
                            !.issued = Append(@, [index |-> WriterAddConstant(w, v).index,
                                                  value |-> v])]
    /\ UNCHANGED <<scanner, source, overflow_checks, c, cstatus, vm>>

NextWriter ==
    \/ \E v \in WriterValues : WWriteConst(v)
    \/ \E v \in WriterValues : WAddConstant(v)

SpecWriter == InitWriter /\ [][NextWriter]_vars

(***************************************************************************)
(* SpecRecovery: the error-reporting methods of the Compiler called one by *)
(* one, in any order, on a Compiler reading a short source.                *)
(***************************************************************************)
RecoveryAlphabet == {Semi, Num("1"), BadChar}

RecoverySources == UNION {SeqsOfLen(RecoveryAlphabet, n) : n \in 0..MaxSrcLen}

InitRecovery ==
    /\ source \in RecoverySources
    /\ c = NewCompiler
    /\ hist = HistNone
    /\ scanner = ScannerIdle
    /\ overflow_checks = FALSE
    /\ cstatus = "new"
    /\ vm = VmNew
    /\ w = NewChunk
    /\ wlast = WLastNone

\* hist after the call named call took the Compiler to next; reported tells whether the
\* call had an error to report
Called(call, next, reported) ==
    [hist EXCEPT !.ops = @ + 1, !.last = call,
                 !.since_sync = (IF call = "synchronize" THEN 0 ELSE @)
                                + Len(next.errors) - Len(c.errors),
                 !.suppressed = @ + (IF c.panic_mode /\ reported THEN 1 ELSE 0)]

RecoveryRest == <<scanner, source, overflow_checks, cstatus, vm, w, wlast>>

\* Compiler::advance; it reports through push_scan_error when scan_next gives an Err
RecAdvance ==
    /\ ~c.panicked /\ hist.ops < MaxRecoveryOps
    /\ c' = Advance(c)
    /\ hist' = Called("advance", c', ~ScanNext(source, c.pos).ok)
    /\ UNCHANGED RecoveryRest

\* Compiler::consume(Semicolon, ..)
RecConsume ==
    /\ ~c.panicked /\ hist.ops < MaxRecoveryOps
    /\ c' = Consume(c, "Semicolon", "Expected ';' after value.")
    /\ hist' = Called("consume", c', ~Check(c, "Semicolon"))
    /\ UNCHANGED RecoveryRest

\* Compiler::push_current_parse_error, which goes through push_parse_error
RecPushCurrentParseError ==
    /\ ~c.panicked /\ hist.ops < MaxRecoveryOps
    /\ c' = PushCurrentParseError(c, PlainMsg("Expected expression"))
    /\ hist' = Called("push_current_parse_error", c', TRUE)
    /\ UNCHANGED RecoveryRest

\* Compiler::synchronize
RecSynchronize ==
    /\ ~c.panicked /\ hist.ops < MaxRecoveryOps
    /\ c' = Synchronize(c)
    /\ hist' = Called("synchronize", c', FALSE)
    /\ UNCHANGED RecoveryRest

NextRecovery == RecAdvance \/ RecConsume \/ RecPushCurrentParseError \/ RecSynchronize

SpecRecovery == InitRecovery /\ [][NextRecovery]_vars

(***************************************************************************)
(* SpecVm: Vm::run on chunks written byte by byte rather than compiled: up *)
(* to MaxPushes instructions that push a value, then one instruction of    *)
(* any kind (or a byte that is no opcode, or an opcode short of operands), *)
(* then at most one of FollowUps.  The bytes of instruction k are written  *)
(* with source line k.                                                     *)
(***************************************************************************)
MaxPushes == 2       \* pushing instructions at the start of a hand-written chunk

\* the constants of these chunks: index 0 a Number, indices 1 and 2 the names a and b
VmPool == <<NumberVal(1), StringVal("a"), StringVal("b")>>

\* an instruction as the bytes InstructionWriter writes for it
Bytes0(op) == <<OpByte(op)>>
Bytes1(op, operand) == <<OpByte(op), operand>>
Bytes2(op, operand1, operand2) == <<OpByte(op), operand1, operand2>>

PushInstrs ==
    {Bytes1("Constant", 0), Bytes1("Constant", 1), Bytes0("True"), Bytes0("False")}

TestInstrs ==
    {Bytes0(OpCodeNames[k]) : k \in {k \in DOMAIN OpCodeNames : Arity(OpCodeNames[k]) = 0}}
    \cup {Bytes1("Constant", 0), Bytes1("Constant", 1), Bytes1("Constant", 9),
          Bytes1("DefineGlobal", 1), Bytes1("DefineGlobal", 0),
          Bytes1("GetGlobal", 1), Bytes1("GetGlobal", 2),
          Bytes1("SetGlobal", 1), Bytes1("SetGlobal", 2),
          Bytes1("GetLocal", 0), Bytes1("GetLocal", 1),
          Bytes1("SetLocal", 0), Bytes1("SetLocal", 1)}
    \cup {Bytes2("Jump", 0, 1), Bytes2("Jump", 0, 9),
          Bytes2("JumpIfFalse", 0, 1), Bytes2("JumpIfFalse", 0, 9),
          Bytes2("Loop", 0, 2), Bytes2("Loop", 1, 0)}
    \cup {<<OpByte("Loop") + 1>>, <<U8Max>>,          \* bytes that are no opcode
          Bytes0("Constant"), <<OpByte("Jump"), 0>>}  \* opcodes short of operands

\* <<>>: nothing follows
FollowUps ==
    {<<>>, Bytes0("Print"), Bytes1("DefineGlobal", 1), Bytes1("SetGlobal", 1),
     Bytes1("SetGlobal", 2), Bytes1("GetGlobal", 1)}

PushSeqs == UNION {SeqsOfLen(PushInstrs, n) : n \in 0..MaxPushes}

RECURSIVE WriteBytes(_, _, _)
\* Chunk::write of each of the bytes, all with the same source line
WriteBytes(ch, bytes, line) ==
    IF bytes = <<>> THEN ch
    ELSE WriteBytes(ChunkWrite(ch, Head(bytes), line), Tail(bytes), line)

RECURSIVE WriteInstrs(_, _, _)
\* the instructions written one after the other, the first with source line k
WriteInstrs(ch, instrs, k) ==
    IF instrs = <<>> THEN ch
    ELSE WriteInstrs(WriteBytes(ch, Head(instrs), k), Tail(instrs), k + 1)

HandChunk(instrs) == WriteInstrs([NewChunk EXCEPT !.values = VmPool], instrs, 1)

\* the build decides nothing but the outcome of a usize subtraction, which on a run only
\* Loop makes: the chunks without a Loop are run for one build
InitVm ==
    /\ \E p \in PushSeqs, t \in TestInstrs, f \in FollowUps :
          /\ c = [NewCompiler EXCEPT !.chunk = HandChunk(p \o <<t, f>>)]
          /\ overflow_checks \in (IF Head(t) = OpByte("Loop") THEN BOOLEAN ELSE {TRUE})
    /\ cstatus = "chunk"
    /\ vm = VmNew
    /\ source = <<>>
    /\ w = NewChunk
    /\ wlast = WLastNone
    /\ hist = HistNone
    /\ scanner = ScannerIdle

NextVm ==
    \/ RunBegin
    \/ RunConstant \/ RunReturn \/ RunNegate \/ RunAdd \/ RunSubtract \/ RunMultiply
    \/ RunDivide \/ RunNil \/ RunTrue \/ RunFalse \/ RunNot \/ RunEqual \/ RunGreater
    \/ RunLess \/ RunPrint \/ RunPop \/ RunDefineGlobal \/ RunGetGlobal \/ RunSetGlobal
    \/ RunGetLocal \/ RunSetLocal \/ RunJump \/ RunJumpIfFalse \/ RunLoop
    \/ RunReadEnd

SpecVm == InitVm /\ [][NextVm]_vars

(***************************************************************************)
(* SpecRunAgain: Vm::run called again on the Vm when it has returned.  run *)
(* takes &mut self and makes a new reader only: the stack and the globals  *)
(* are fields of the Vm, set in Vm::new and kept from call to call.        *)
(***************************************************************************)
MaxRuns == 2         \* calls of run on one Vm

InitRunAgain ==
    /\ \E p \in SeqsOfLen(PushInstrs, 1), t \in TestInstrs, f \in FollowUps :
          c = [NewCompiler EXCEPT !.chunk = HandChunk(p \o <<t, f>>)]
    /\ overflow_checks = TRUE
    /\ cstatus = "chunk"
    /\ vm = VmNew
    /\ source = <<>>
    /\ w = NewChunk
    /\ wlast = WLastNone
    /\ hist = HistNone
    /\ scanner = ScannerIdle

\* Vm::run up to its loop, called on a Vm whose run has returned Ok or Err
RunAgain ==
    /\ cstatus = "chunk"
    /\ vm.status \in {"ok", "error"}
    /\ vm.runs < MaxRuns
    /\ vm' = [vm EXCEPT !.status = "running", !.ip = 0, !.runs = @ + 1,
                        !.last = NoInstruction, !.error = NoVmError]
    /\ UNCHANGED Rest

NextRunAgain == NextVm \/ RunAgain

SpecRunAgain == InitRunAgain /\ [][NextRunAgain]_vars

(***************************************************************************)
(* SpecPatch: the writer as the compiler drives it for a forward jump: the *)
(* jump is written (after the code of a condition, for JumpIfFalse), then  *)
(* a body of n bytes; the jump is patched to the chunk end, Return is      *)
(* written, and the Vm runs the chunk.  The compiler puts no limit on the  *)
(* body: `if (c) { print nil; ... }` has two bytes for every statement.    *)
(* The body is n one-byte instructions (Nil), or begins with the two-byte  *)
(* GetLocal 0 that a statement reading a local begins with.                *)
(***************************************************************************)
\* the code lengths of the body the jump goes over
JumpDistances == {0, 1, U8Max, U8Max + 1, U16Max, U16Max + 1, U16Max + 2}

\* what is written before the body: the op code pushing the condition, if there is one,
\* and the jump
JumpHeads == {<<"Jump">>, <<"False", "JumpIfFalse">>, <<"True", "JumpIfFalse">>}

\* the chunk after n calls of write_op_code(Nil, 1)
WriteNils(ch, n) ==
    [ch EXCEPT !.code = @ \o [k \in 1..n |-> OpByte("Nil")],
               !.line_numbers = @ \o [k \in 1..n |-> 1]]

\* the body of n bytes written after the jump
BodyStarts == {"Nil", "GetLocal"}
WriteBody(ch, first, n) ==
    IF first = "GetLocal" /\ n >= 2
    THEN WriteNils(WriteOpCodeWithOperand(ch, "GetLocal", 0, 1), n - 2)
    ELSE WriteNils(ch, n)

\* the chunk with the head written, and where its jump starts
WriteHead(head) ==
    IF head = <<"Jump">> THEN WriteJump(NewChunk, 1)
    ELSE WriteJumpIfFalse(WriteOpCode(NewChunk, head[1], 1), 1)

InitPatch ==
    /\ \E head \in JumpHeads, n \in JumpDistances, first \in BodyStarts :
          /\ c = [NewCompiler EXCEPT !.chunk = WriteBody(WriteHead(head).chunk, first, n)]
          /\ wlast = [WLastNone EXCEPT !.op = "write_jump", !.start = WriteHead(head).start]
    /\ overflow_checks \in BOOLEAN
    /\ cstatus = "written"
    /\ vm = VmNew
    /\ source = <<>>
    /\ w = NewChunk
    /\ hist = HistNone
    /\ scanner = ScannerIdle

\* patch_jump_to_chunk_end(jump location), as if_statement, and, or call it with `?`
PatchJump ==
    /\ cstatus = "written"
    /\ c' = FromWriter(c, PatchJumpToChunkEnd(c.chunk, wlast.start, overflow_checks))
    /\ wlast' = [wlast EXCEPT !.op = "patch_jump_to_chunk_end", !.before = c.chunk,
                              !.ok = PatchJumpToChunkEnd(c.chunk, wlast.start,
                                                         overflow_checks).ok]
    /\ cstatus' = IF Failed(c') THEN "errors" ELSE "patched"
    /\ UNCHANGED <<scanner, source, overflow_checks, vm, w, hist>>

\* the end of compile: Return is written and the chunk handed over
WriteReturn ==
    /\ cstatus = "patched"
    /\ c' = CompileEnd(c)
    /\ cstatus' = "chunk"
    /\ UNCHANGED <<scanner, source, overflow_checks, vm, w, wlast, hist>>

NextPatch ==
    \/ PatchJump \/ WriteReturn
    \/ RunBegin \/ RunTrue \/ RunFalse \/ RunNil \/ RunJump \/ RunJumpIfFalse \/ RunReturn
    \/ RunGetLocal \/ RunConstant

SpecPatch == InitPatch /\ [][NextPatch]_vars

(***************************************************************************)
(* SpecLocals: the compiler inside a block in which n locals have been     *)
(* declared, `{ var a; ... var a;` having been compiled; source holds the  *)
(* tokens that follow.  One action per turn of the loop of block(), one    *)
(* for the end of the block.                                               *)
(***************************************************************************)
MaxBlockDecls == 2       \* declarations that follow in the block

\* the numbers of locals declared so far: few, and up to the limit of add_local
LocalCounts == {0, 1, 2, U8Max - 2, U8Max - 1, U8Max}

\* the declarations that can follow
BlockDecls ==
    { << Var, Id("a"), Semi >>,
      << Var, Id("b"), Eq, Id("a"), Semi >>,
      << KwPrint, Id("a"), Semi >>,
      << Id("b"), Eq, Num("1"), Semi >>,
      << LBrace, Var, Id("b"), Semi, RBrace >> }

RECURSIVE Flatten(_)
Flatten(ss) == IF ss = <<>> THEN <<>> ELSE Head(ss) \o Flatten(Tail(ss))

BlockTails ==
    {Flatten(ds) \o <<RBrace>> :
        ds \in UNION {SeqsOfLen(BlockDecls, n) : n \in 0..MaxBlockDecls}}

\* the compiler after `var a;` inside a block: add_local, Nil written, define_variable
DeclaredLocal(cc) == DefineVariable(Emit(AddLocal(cc, "a"), "Nil", 1), 0)

RECURSIVE DeclareRange(_, _, _)
\* DeclaredLocal applied hi - lo times (cc is evaluated before the range is split)
DeclareRange(cc, lo, hi) ==
    IF hi <= lo \/ Len(cc.locals) < 0 THEN cc
    ELSE IF hi = lo + 1 THEN DeclaredLocal(cc)
    ELSE DeclareRange(DeclareRange(cc, lo, (lo + hi) \div 2), (lo + hi) \div 2, hi)

InitLocals ==
    /\ source \in BlockTails
    /\ overflow_checks = TRUE
    /\ \E n \in LocalCounts :
          c = [Advance(DeclareRange(BeginScope(NewCompiler), 0, n))
                 EXCEPT !.prev = IF n = 0 THEN LBrace ELSE Semi]
    /\ cstatus = "block"
    /\ vm = VmNew
    /\ w = NewChunk
    /\ wlast = WLastNone
    /\ hist = HistNone
    /\ scanner = ScannerIdle

LocalsRest == <<scanner, source, overflow_checks, vm, w, wlast, hist>>

\* one turn of the loop of Compiler::block; an Err goes up to compile, which pushes it
LocDeclaration ==
    /\ cstatus = "block"
    /\ ~(Check(c, "RightBrace") \/ Check(c, "Eof"))
    /\ c' = CompileLoopBody(c)
    /\ cstatus' = IF c'.panicked THEN "panic"
                  ELSE IF c'.scope_depth = 0 THEN "closed"
                  ELSE "block"
    /\ UNCHANGED LocalsRest

\* the end of Compiler::block and the end_scope that statement() calls after it
LocEndBlock ==
    /\ cstatus = "block"
    /\ Check(c, "RightBrace") \/ Check(c, "Eof")
    /\ c' = Then(Consume(c, "RightBrace", "Expected '}' after block"),
                 LAMBDA c1 : EndScope(c1))
    /\ cstatus' = IF c'.panicked THEN "panic" ELSE "closed"
    /\ UNCHANGED LocalsRest

NextLocals == LocDeclaration \/ LocEndBlock

SpecLocals == InitLocals /\ [][NextLocals]_vars

(***************************************************************************)
(* Properties of compile and run (Spec)                                    *)
(***************************************************************************)
RECURSIVE Instructions(_, _)
\* the instructions read_next gives when reading the chunk from ip to its end
Instructions(ch, ip) ==
    With(ReadNext(ch, ip),
         LAMBDA i : IF i.kind # "instr" THEN <<>> ELSE <<i>> \o Instructions(ch, i.ip))

\* the slot of the local declared last among those called name
InnermostSlot(locals, name) ==
    (CHOOSE i \in 1..Len(locals) :
        /\ locals[i].name = name
        /\ \A j \in 1..Len(locals) : locals[j].name = name => j <= i) - 1

\* C1: in a program that compiled, a local is popped only when the scope it was declared
\* in exits (never with an inner scope), and every GetLocal/SetLocal written for a name
\* addresses the slot of the innermost local of that name, so that the slot keeps the
\* variable's value until its own scope exits.
C1_LocalSlotUntilScopeExit ==
    cstatus = "chunk" =>
        /\ \A k \in DOMAIN c.log_pop : c.log_pop[k].depth = c.log_pop[k].closed
        /\ \A k \in DOMAIN c.log_resolve :
              c.log_resolve[k].found =>
                  c.log_resolve[k].slot
                      = InnermostSlot(c.log_resolve[k].locals, c.log_resolve[k].name)

\* C2: for every while statement the subtraction of write_loop does not overflow, the
\* operand written is len + 3 - loop_start, and the Vm that has executed the Loop is at
\* loop_start.
C2_LoopOperand ==
    /\ \A k \in DOMAIN c.log_loop : ~c.log_loop[k].overflow
    /\ cstatus = "chunk" =>
          \A k \in DOMAIN c.log_loop :
              c.chunk.code[c.log_loop[k].at + 2] * 256 + c.chunk.code[c.log_loop[k].at + 3]
                  = c.log_loop[k].at + 3 - c.log_loop[k].loop_start
    /\ (cstatus = "chunk" /\ vm.status = "running" /\ vm.last.op = "Loop") =>
          \E k \in DOMAIN c.log_loop :
              /\ c.log_loop[k].at = vm.last.offset
              /\ vm.ip = c.log_loop[k].loop_start

\* a Jump or JumpIfFalse that still has the operands it was written with
IsPlaceHolderJump(i) ==
    i.op \in {"Jump", "JumpIfFalse"} /\ i.operand1 = PlaceHolder /\ i.operand2 = PlaceHolder

UnpatchedJumps(ch) ==
    {k \in DOMAIN Instructions(ch, 0) : IsPlaceHolderJump(Instructions(ch, 0)[k])}

SelfReference(e) ==
    /\ e.locals # <<>>
    /\ e.locals[Len(e.locals)].name = e.name
    /\ ~e.locals[Len(e.locals)].initialized

\* C5: a reference to a local inside its own initializer is the error "Use of
\* uninitialized local variable", and compile then returns no chunk, whatever the other
\* locals are.
C5_UninitializedLocalUse ==
    \A k \in DOMAIN c.log_resolve :
        SelfReference(c.log_resolve[k]) => c.log_resolve[k].uninit /\ cstatus # "chunk"

\* C6: when compile is about to parse a declaration after an earlier one, panic_mode is
\* false.
C6_PanicClearedAtDeclaration ==
    (cstatus = "compiling" /\ c.log_decl # <<>> /\ ~Check(c, "Eof")) => ~c.panic_mode

\* C11: the code bytes and the source lines of the compiler's chunk are equally many in
\* every state of a compilation and after it: each byte written got its line, and the
\* patching of a jump changed neither length.
C11_CodeAndLinesInLockStep == Len(c.chunk.code) = Len(c.chunk.line_numbers)

\* compile is between two declarations and has written and patched a JumpIfFalse
C11_Witness ==
    /\ cstatus = "compiling"
    /\ \E k \in DOMAIN Instructions(c.chunk, 0) :
          /\ Instructions(c.chunk, 0)[k].op = "JumpIfFalse"
          /\ ~IsPlaceHolderJump(Instructions(c.chunk, 0)[k])
    /\ Len(c.chunk.line_numbers) = Len(c.chunk.code)

\* the operand bytes an opcode has by the instruction table of the specification
OperandBytes(op) ==
    CASE op \in {"Constant", "DefineGlobal", "GetGlobal", "SetGlobal", "GetLocal", "SetLocal"} -> 1
      [] op \in {"Jump", "JumpIfFalse", "Loop"} -> 2
      [] OTHER -> 0

RECURSIVE EncodeAll(_)
\* the bytes that the (opcode, operand1, operand2) triples of the instructions stand for
EncodeAll(instrs) ==
    IF instrs = <<>> THEN <<>>
    ELSE <<OpByte(Head(instrs).op)>>
         \o (IF Head(instrs).operand1 >= 0 THEN <<Head(instrs).operand1>> ELSE <<>>)
         \o (IF Head(instrs).operand2 >= 0 THEN <<Head(instrs).operand2>> ELSE <<>>)
         \o EncodeAll(Tail(instrs))

\* C19: the chunk that compile returns is decoded by read_next from offset 0 without a
\* failure: the first instruction is at offset 0, each next one at the offset of the one
\* before plus 1 plus its operand bytes, the last one ends where the code ends; and the
\* decoded triples, encoded again in order, are the code bytes.
C19_DecodeRoundTrip ==
    cstatus = "chunk" =>
        /\ Instructions(c.chunk, 0) # <<>>
        /\ \A k \in DOMAIN Instructions(c.chunk, 0) :
              Instructions(c.chunk, 0)[k].offset
                  = IF k = 1 THEN 0
                    ELSE Instructions(c.chunk, 0)[k - 1].offset + 1
                         + OperandBytes(Instructions(c.chunk, 0)[k - 1].op)
        /\ Instructions(c.chunk, 0)[Len(Instructions(c.chunk, 0))].offset + 1
              + OperandBytes(Instructions(c.chunk, 0)[Len(Instructions(c.chunk, 0))].op)
              = Len(c.chunk.code)
        /\ ReadNext(c.chunk, Len(c.chunk.code)).kind = "none"
        /\ EncodeAll(Instructions(c.chunk, 0)) = c.chunk.code

\* a chunk was returned that decodes into instructions of all three operand counts, a Loop
\* and a GetLocal among them
C19_Witness ==
    /\ cstatus = "chunk"
    /\ \E k \in DOMAIN Instructions(c.chunk, 0) : Instructions(c.chunk, 0)[k].op = "Loop"
    /\ \E k \in DOMAIN Instructions(c.chunk, 0) : Instructions(c.chunk, 0)[k].op = "GetLocal"
    /\ \E k \in DOMAIN Instructions(c.chunk, 0) : Instructions(c.chunk, 0)[k].op = "Add"
    /\ EncodeAll(Instructions(c.chunk, 0)) = c.chunk.code

\* what the counting loop has to print
CountingLoopOutput == <<NumberVal(0), NumberVal(1), NumberVal(2)>>

\* C20: `var i = 0; while (i < 3) { print i; i = i + 1; }` compiles, and its run prints 0,
\* 1, 2 in this order and nothing else (what is printed is at every moment a prefix of
\* 0, 1, 2; neither compile nor run fails) and then ends with success: from the chunk
\* that compile returned, the run comes to its successful end with 0, 1, 2 printed.
C20_CountingLoop ==
    /\ [](source = CountingLoop =>
            /\ cstatus \notin {"errors", "panic"}
            /\ vm.status \notin {"error", "panic"}
            /\ Len(vm.out) <= Len(CountingLoopOutput)
            /\ vm.out = SubSeq(CountingLoopOutput, 1, Len(vm.out)))
    /\ (source = CountingLoop /\ cstatus = "chunk")
          ~> (vm.status = "ok" /\ vm.out = CountingLoopOutput)

\* the run of the counting loop has ended, the three values printed
C20_Witness ==
    /\ source = CountingLoop
    /\ vm.status = "ok"
    /\ vm.out = CountingLoopOutput
    /\ vm.last.op = "Return"

\* the run of the source has ended with success, out printed and nothing else; before
\* its end what is printed is a prefix of out, and neither compile nor run fails
PrintsExactly(src, out) ==
    source = src =>
        /\ cstatus \notin {"errors", "panic"}
        /\ vm.status \notin {"error", "panic"}
        /\ Len(vm.out) <= Len(out)
        /\ vm.out = SubSeq(out, 1, Len(vm.out))
        /\ vm.status = "ok" => vm.out = out

\* C21, as stated: `var a = 1; var b = 2; print a + b; a = a + 10; print a;` compiles and
\* runs without an error and prints exactly two lines, 11 and then 11.
C21_PrintsElevenTwice == PrintsExactly(GlobalsProgram, <<NumberVal(11), NumberVal(11)>>)

\* C21, amended: the program compiles and runs without an error and prints exactly two
\* lines, 3 (the sum of a = 1 and b = 2) and then 11 (a after a = a + 10).
C21_PrintsThreeThenEleven == PrintsExactly(GlobalsProgram, <<NumberVal(3), NumberVal(11)>>)

\* the run of the program has ended, 3 and 11 printed, the globals a = 11 and b = 2 defined
C21_Witness ==
    /\ source = GlobalsProgram
    /\ vm.status = "ok"
    /\ vm.out = <<NumberVal(3), NumberVal(11)>>
    /\ vm.globals = {[name |-> "a", value |-> NumberVal(11)], [name |-> "b", value |-> NumberVal(2)]}

\* the indices (from 1) of the locals called name
LocalsNamed(locals, name) == {i \in 1..Len(locals) : locals[i].name = name}

\* C25: every call of resolve_local that returned a slot returned the highest index
\* among the locals of that name, the one declared last; it returned none only when no
\* local had the name.
C25_ResolvesMostRecentLocal ==
    \A k \in DOMAIN c.log_resolve :
        /\ c.log_resolve[k].found =>
              \A i \in LocalsNamed(c.log_resolve[k].locals, c.log_resolve[k].name) :
                  i - 1 <= c.log_resolve[k].slot
        /\ (~c.log_resolve[k].found /\ ~c.log_resolve[k].uninit) =>
              LocalsNamed(c.log_resolve[k].locals, c.log_resolve[k].name) = {}

\* C28: in `a + 1 = 2;` the infix loop of the parse_precedence(Assignment) that
\* expression() calls ends with `=` as the current token; compile then returns the error
\* collection, and an error in it is "Invalid assignment target".
C28_InvalidAssignmentTargetReported ==
    source = AssignToSum =>
        /\ cstatus # "chunk"
        /\ cstatus = "errors" =>
              \E k \in DOMAIN c.errors : c.errors[k].msg.text = "Invalid assignment target"

\* C29: for all Booleans a, b, x, `print a and b or x;` prints (a and b) or x, and
\* `print a or b and x;` prints a or (b and x): `or` binds less tightly than `and`.
C29_OrBindsLooserThanAnd ==
    \A a, b, x \in BOOLEAN :
        /\ PrintsExactly(AndThenOr(a, b, x), <<BooleanVal((a /\ b) \/ x)>>)
        /\ PrintsExactly(OrThenAnd(a, b, x), <<BooleanVal(a \/ (b /\ x))>>)

\* the value of x op y
Applied(op, x, y) ==
    CASE op = Plus -> F64Add(x, y)
      [] op = Minus -> F64Sub(x, y)
      [] op = Star -> F64Mul(x, y)
      [] op = Slash -> F64Div(x, y)

\* * and / bind tighter than + and -
BindsTighter(op2, op1) == op2 \in {Star, Slash} /\ op1 \in {Plus, Minus}

\* the value of 8 op1 4 op2 2 with op1 applied first unless op2 binds tighter
LeftToRight(op1, op2) ==
    IF BindsTighter(op2, op1)
    THEN Applied(op1, NumberVal(8), Applied(op2, NumberVal(4), NumberVal(2)))
    ELSE Applied(op2, Applied(op1, NumberVal(8), NumberVal(4)), NumberVal(2))

\* C30: for all arithmetic operators op1, op2, `print 8 op1 4 op2 2;` prints the value
\* with op1 applied first when op2's precedence is not higher (8 - 4 - 2 is 2, 8 / 4 / 2
\* is 1) and with op2 applied first when it is higher (8 + 4 * 2 is 16); and
\* `print 1 + 2 * 3; print (1 + 2) * 3;` prints 7 and 9.
C30_LeftAssociativeByPrecedence ==
    /\ \A op1, op2 \in ArithmeticOps :
          PrintsExactly(TwoOperators(op1, op2), <<LeftToRight(op1, op2)>>)
    /\ PrintsExactly(GroupingProgram, <<NumberVal(7), NumberVal(9)>>)

\* the run of `print 8 - 4 - 2;` has ended and has printed 2
C30_Witness ==
    /\ source = TwoOperators(Minus, Minus)
    /\ vm.status = "ok"
    /\ vm.out = <<NumberVal(2)>>

\* the right operand `(x = 1)` is executed: the value of the whole is 1, and x is 1 after
RightOperandRuns(a, op) == (op = KwAnd /\ a) \/ (op = KwOr /\ ~a)

\* what `var x = 0; print a op (x = 1); print x;` has to print
ShortCircuitOutput(a, op) ==
    IF RightOperandRuns(a, op) THEN <<NumberVal(1), NumberVal(1)>>
    ELSE <<BooleanVal(a), NumberVal(0)>>

\* C31: with a Boolean left operand a and the right operand (x = 1), `a and b` gives a and
\* leaves x as it was when a is false, and gives the value of b (x then being 1) when a is
\* true; `a or b` gives a and leaves x when a is true, and the value of b when a is false.
\* Where the value is printed, it is the one value on the stack.
C31_ShortCircuit ==
    \A a \in BOOLEAN, op \in {KwAnd, KwOr} :
        /\ PrintsExactly(ShortCircuit(a, op), ShortCircuitOutput(a, op))
        /\ (source = ShortCircuit(a, op) /\ vm.status = "running"
              /\ Fetch.kind = "instr" /\ Fetch.op = "Print") => Len(vm.stack) = 1

\* the run of `var x = 0; print false and (x = 1); print x;` has ended: false and 0 printed,
\* the assignment never executed
C31_Witness ==
    /\ source = ShortCircuit(FALSE, KwAnd)
    /\ vm.status = "ok"
    /\ vm.out = <<BooleanVal(FALSE), NumberVal(0)>>
    /\ vm.globals = {[name |-> "x", value |-> NumberVal(0)]}

\* the Vm is about to execute a Print, or its run has ended with success
AtPrintOrEnd(op_count) ==
    \/ vm.status = "ok" /\ op_count = 0
    \/ vm.status = "running" /\ Fetch.kind = "instr" /\ Fetch.op = "Print" /\ op_count = 1

\* C32: `if (c) print 1; else print 2; print 3;` prints 1 and 3 when c is true (the code of
\* the then-statement only) and 2 and 3 when c is false (the code of the else-statement
\* only); without the else it prints 1 and 3, or 3 alone.  The condition is popped once on
\* either path: every Print finds its one operand on the stack and nothing else, and the
\* stack is empty when the run ends.
C32_IfExecutesOneBranch ==
    \A cond \in BOOLEAN :
        /\ PrintsExactly(IfElse(cond), <<NumberVal(IF cond THEN 1 ELSE 2), NumberVal(3)>>)
        /\ PrintsExactly(IfOnly(cond), IF cond THEN <<NumberVal(1), NumberVal(3)>>
                                       ELSE <<NumberVal(3)>>)
        /\ source \in {IfElse(cond), IfOnly(cond)} =>
              /\ AtPrintOrEnd(0) => vm.stack = <<>>
              /\ AtPrintOrEnd(1) => Len(vm.stack) = 1

\* the run of `if (false) print 1; else print 2; print 3;` has ended with 2 and 3 printed
C32_Witness ==
    /\ source = IfElse(FALSE)
    /\ vm.status = "ok"
    /\ vm.out = <<NumberVal(2), NumberVal(3)>>
    /\ vm.stack = <<>>

\* C35: for number literals a and b, `print a != b;` prints whether a and b differ,
\* `print a >= b;` whether a is at least b, `print a <= b;` whether a is at most b; the
\* chunks are the pushes of a and b, then Equal, Less or Greater, then Not.
C35_LoweredComparisons ==
    \A a, b \in ComparedNumbers :
        /\ PrintsExactly(Compare(a, BangEqual, b), <<BooleanVal(a # b)>>)
        /\ PrintsExactly(Compare(a, GreaterEqual, b), <<BooleanVal(a >= b)>>)
        /\ PrintsExactly(Compare(a, LessEqual, b), <<BooleanVal(a <= b)>>)

\* `print 1 <= 2;` has run to its end and printed true
C35_Witness ==
    /\ source = Compare(1, LessEqual, 2)
    /\ vm.status = "ok"
    /\ vm.out = <<BooleanVal(TRUE)>>
    /\ [k \in 1..5 |-> Instructions(c.chunk, 0)[k].op]
          = <<"Constant", "Constant", "Greater", "Not", "Print">>

\* C36 (the loops of compile and block): every call of declaration, from the loop of
\* compile or from the loop of block, starts with fewer tokens left than the call before it
\* and ends with fewer tokens left than it started with, whether it failed or not; no token
\* is asked for beyond the first Eof.  The number of calls is so bounded by the number of
\* tokens of the source.
C36_DeclarationConsumesToken ==
    /\ \A k \in 1..(Len(c.log_decl) - 1) : c.log_decl[k + 1].left < c.log_decl[k].left
    /\ (c.log_decl # <<>>) => TokensLeft(c) < c.log_decl[Len(c.log_decl)].left
    /\ Len(c.log_decl) <= Len(source)
    /\ c.pos <= Len(source) + 1

\* a declaration that failed inside a block, after a declaration that did not: both
\* consumed tokens, and compile has returned its errors
C36_Witness ==
    /\ cstatus = "errors"
    /\ Len(c.log_decl) >= 2
    /\ c.log_decl[1].depth = 0
    /\ c.log_decl[2].depth = 1
    /\ \E k \in DOMAIN source : source[k].type = "ScanError"

\* the calls of declaration that returned Ok in the chunk compile returned
Compiled == {k \in DOMAIN c.log_decl : c.log_decl[k].done}

\* the declaration is `var` inside a block: it declares a local
DeclaresLocal(d) == d.is_var /\ d.depth > 0

\* the height of the stack tells the locals: where a declaration starts and where it ends
\* the stack holds exactly the locals the compiler had there
HeightIsLocals ==
    (cstatus = "chunk" /\ vm.status = "running") =>
        \A k \in Compiled :
            /\ vm.ip = c.log_decl[k].at => Len(vm.stack) = c.log_decl[k].locals
            /\ vm.ip = c.log_decl[k].end => Len(vm.stack) = c.log_decl[k].locals_end

\* C37: in a chunk that compile returned, a statement (print, expression, if, while, block)
\* ends with the stack as high as it started, the declaration of a local with the stack one
\* higher; the height at the start and at the end of every declaration is the one the
\* compiler counted, on every path of the run; and a run that returns Ok leaves the stack empty.
C37_StatementsStackBalanced ==
    /\ cstatus = "chunk" =>
          \A k \in Compiled :
              c.log_decl[k].locals_end =
                  c.log_decl[k].locals + (IF DeclaresLocal(c.log_decl[k]) THEN 1 ELSE 0)
    /\ HeightIsLocals
    /\ vm.status = "ok" => vm.stack = <<>>

\* where a Jump, JumpIfFalse or Loop read as i sets the ip
JumpTarget(i) ==
    IF i.op = "Loop" THEN i.ip - ReadOperandsAsUsize(i) ELSE i.ip + ReadOperandsAsUsize(i)

\* the start of the instruction after the one at offset o; beyond the code when the reader
\* does not get an instruction at o
StartAfter(ch, i) == IF i.kind = "instr" THEN i.ip ELSE ChunkLen(ch) + 1
NextStart(ch, o) == With(ReadNext(ch, o), LAMBDA i : StartAfter(ch, i))

RECURSIVE FirstStartFrom(_, _, _)
\* the first offset >= to an instruction starts at, reading on from the instruction start
\* `from` (the interval is read by halves)
FirstStartFrom(ch, from, to) ==
    IF from >= to THEN from
    ELSE IF to - from = 1 THEN NextStart(ch, from)
    ELSE With(FirstStartFrom(ch, from, (from + to) \div 2),
              LAMBDA m : FirstStartFrom(ch, m, to))

\* offset o is where an instruction of the chunk starts, or the length of the code
IsBoundary(ch, o) == o \in 0..ChunkLen(ch) /\ FirstStartFrom(ch, 0, o) = o

RECURSIVE JumpsFrom(_, _, _)
\* the targets of the jumps among the instructions from `from` up to `to`, and the start
\* of the first instruction after them
JumpsFrom(ch, from, to) ==
    IF from >= to THEN [next |-> from, targets |-> {}]
    ELSE IF to - from = 1
    THEN With(ReadNext(ch, from), LAMBDA i :
              [next |-> StartAfter(ch, i),
               targets |-> IF i.kind = "instr" /\ i.op \in {"Jump", "JumpIfFalse", "Loop"}
                           THEN {JumpTarget(i)} ELSE {}])
    ELSE With(JumpsFrom(ch, from, (from + to) \div 2), LAMBDA l :
         With(JumpsFrom(ch, l.next, to), LAMBDA r :
              [next |-> r.next, targets |-> l.targets \cup r.targets]))

\* C38: in a chunk that compile returned, the target of every Jump, JumpIfFalse and Loop
\* is the offset of an instruction of the chunk or the length of the code, and so is the
\* ip of the reader throughout a run of it.
C38_JumpTargetsAtBoundaries ==
    cstatus = "chunk" =>
        /\ \A t \in JumpsFrom(c.chunk, 0, ChunkLen(c.chunk)).targets : IsBoundary(c.chunk, t)
        /\ vm.status \in {"running", "ok", "error"} => IsBoundary(c.chunk, vm.ip)

HasWhile(src) == \E k \in DOMAIN src : src[k].type = "While"

\* the run has returned
RunEnded == vm.status \in {"ok", "error", "panic"}

\* C39: the run of a chunk compiled from a source without `while` moves the ip forward
\* with every instruction it executes, so none is executed twice and the instructions
\* executed are at most as many as the bytes of the code (the run ends, and the bound on
\* the instructions dispatched cuts no such run short); it returns Ok only at a Return
\* or at the end of the code.
C39_RunWithoutWhileTerminates ==
    /\ [][ (~HasWhile(source) /\ vm.status = "running" /\ vm'.status = "running") =>
               vm'.ip > vm.ip ]_vars
    /\ []((~HasWhile(source) /\ cstatus = "chunk" /\ vm.status = "running") =>
               /\ vm.steps <= vm.ip
               /\ vm.ip <= ChunkLen(c.chunk)
               /\ vm.steps < MaxVmSteps)
    /\ []((~HasWhile(source) /\ cstatus = "chunk" /\ vm.status = "ok") =>
               (vm.last.op = "Return" \/ vm.ip = ChunkLen(c.chunk)))

\* under weak fairness of the run steps (SpecRunFair), the run of a chunk compiled from a
\* source without `while` reaches its end
RunWithoutWhileEnds == (~HasWhile(source) /\ cstatus = "chunk") ~> RunEnded

\* `if (true) print 1; else print 2; print 3;` has run to its Return, having jumped over
\* the else branch
C39_Witness ==
    /\ source = IfElse(TRUE)
    /\ vm.status = "ok"
    /\ vm.last.op = "Return"
    /\ vm.out = <<NumberVal(1), NumberVal(3)>>
    /\ vm.steps < Len(Instructions(c.chunk, 0))

(***************************************************************************)
(* Properties of the reader and the Vm on hand-written chunks (SpecVm)     *)
(***************************************************************************)
\* the instruction read next moves the ip: a Jump, a Loop, or a JumpIfFalse on false
MovesIp ==
    \/ Dispatching("Jump")
    \/ Dispatching("Loop")
    \/ /\ Dispatching("JumpIfFalse")
       /\ vm.stack # <<>>
       /\ vm.stack[Len(vm.stack)] = BooleanVal(FALSE)

\* the ip it asks for, as an integer: the ip after read_next plus or minus the operand
RequestedIp ==
    IF Fetch.op = "Loop" THEN Fetch.ip - ReadOperandsAsUsize(Fetch)
    ELSE Fetch.ip + ReadOperandsAsUsize(Fetch)

\* C12: inc_ip and dec_ip (through set_ip) set the ip to the requested one when it lies in
\* [0, code.len]; when it lies outside, dec_ip below 0 included, they return an error (run
\* ends with it) and leave the ip where read_next put it.
C12_IpMoveInRangeOrError ==
    [][ MovesIp =>
            IF RequestedIp \in 0..Len(c.chunk.code)
            THEN vm'.status = "running" /\ vm'.ip = RequestedIp
            ELSE vm'.status = "error" /\ vm'.ip = Fetch.ip ]_vars

\* C13: an error that run returns because an instruction failed (a type mismatch, a stack
\* underflow, an undefined global, a jump or loop out of range) carries the instruction,
\* its offset and its source line.
C13_RuntimeErrorsCarryDetails ==
    (vm.status = "error" /\ vm.error.msg # "Failed to read code byte") => vm.error.details

\* C14: Greater or Less executed on two operands of different tags makes run return an
\* error; on two operands of the same tag it pushes a Boolean and run goes on.
C14_CrossTypeComparisonFails ==
    [][ ((Dispatching("Greater") \/ Dispatching("Less")) /\ Len(vm.stack) >= 2) =>
            IF vm.stack[Len(vm.stack) - 1].tag # vm.stack[Len(vm.stack)].tag
            THEN vm'.status = "error"
            ELSE /\ vm'.status = "running"
                 /\ vm'.stack[Len(vm'.stack)].tag = "Boolean" ]_vars

\* both of the two values on top of the stack have this tag
TopTwoAre(tag) ==
    vm.stack[Len(vm.stack) - 1].tag = tag /\ vm.stack[Len(vm.stack)].tag = tag

\* the instruction read next is given operands of a type its opcode does not take
TypeViolation ==
    \/ Dispatching("Negate") /\ vm.stack # <<>> /\ vm.stack[Len(vm.stack)].tag # "Number"
    \/ Dispatching("Not") /\ vm.stack # <<>> /\ vm.stack[Len(vm.stack)].tag # "Boolean"
    \/ /\ Dispatching("Subtract") \/ Dispatching("Multiply") \/ Dispatching("Divide")
       /\ Len(vm.stack) >= 2
       /\ ~TopTwoAre("Number")
    \/ /\ Dispatching("Add")
       /\ Len(vm.stack) >= 2
       /\ ~TopTwoAre("Number") /\ ~TopTwoAre("String")
    \/ Dispatching("JumpIfFalse") /\ vm.stack # <<>> /\ vm.stack[Len(vm.stack)].tag # "Boolean"

\* C15: an instruction given operands of the wrong type makes run return an error, with
\* what was printed and the globals as they were; and once run has returned an error no
\* further step is taken.
C15_TypeViolationAbortsRun ==
    [][ /\ vm.status # "error"
        /\ TypeViolation =>
              /\ vm'.status = "error"
              /\ vm'.out = vm.out
              /\ vm'.globals = vm.globals ]_vars

\* run returned the error of a JumpIfFalse on a non-Boolean with a Print left unread
C15_Witness ==
    /\ vm.status = "error"
    /\ vm.last.op = "JumpIfFalse"
    /\ vm.error.msg = "Can't jump. Non boolean value found on stack"
    /\ ReadNext(c.chunk, vm.ip).op = "Print"
    /\ vm.out = <<>>

\* C16: SetLocal and SetGlobal leave the height of the stack and the value on its top as
\* they were; DefineGlobal, when it succeeds, removes exactly the top value and binds it
\* to the name; JumpIfFalse leaves the stack as it was, whether it jumps or not.
C16_StackEffects ==
    [][ /\ (Dispatching("SetLocal") \/ Dispatching("SetGlobal")) =>
              /\ Len(vm'.stack) = Len(vm.stack)
              /\ vm.stack # <<>> => vm'.stack[Len(vm'.stack)] = vm.stack[Len(vm.stack)]
        /\ (Dispatching("DefineGlobal") /\ vm'.status = "running") =>
              /\ vm.stack # <<>>
              /\ vm'.stack = SubSeq(vm.stack, 1, Len(vm.stack) - 1)
              /\ GlobalDefined(vm'.globals, GetGlobalName(c.chunk, Fetch).name)
              /\ GlobalValue(vm'.globals, GetGlobalName(c.chunk, Fetch).name)
                    = vm.stack[Len(vm.stack)]
        /\ Dispatching("JumpIfFalse") => vm'.stack = vm.stack ]_vars

\* after 1, true, JumpIfFalse (not jumping), DefineGlobal a: a is bound to true and the
\* Number is what is left on the stack
C16_Witness ==
    /\ vm.status = "running"
    /\ vm.last.op = "DefineGlobal"
    /\ vm.steps = 4
    /\ vm.stack = <<NumberVal(1)>>
    /\ vm.globals = {[name |-> "a", value |-> BooleanVal(TRUE)]}

\* C17: GetGlobal and SetGlobal of a name that is not defined make run return an error,
\* the globals (and the stack) left as they were; DefineGlobal on a stack that is not
\* empty succeeds and binds the name to the top value, whether the name was defined or
\* not; and a name becomes defined through DefineGlobal only.
C17_GlobalsDefinedBeforeUse ==
    [][ /\ ( /\ Dispatching("GetGlobal") \/ Dispatching("SetGlobal")
             /\ GetGlobalName(c.chunk, Fetch).ok
             /\ ~GlobalDefined(vm.globals, GetGlobalName(c.chunk, Fetch).name) ) =>
              /\ vm'.status = "error"
              /\ vm'.globals = vm.globals
              /\ vm'.stack = vm.stack
        /\ ( /\ Dispatching("DefineGlobal")
             /\ GetGlobalName(c.chunk, Fetch).ok
             /\ vm.stack # <<>> ) =>
              /\ vm'.status = "running"
              /\ vm'.globals =
                    {p \in vm.globals : p.name # GetGlobalName(c.chunk, Fetch).name}
                    \cup {[name |-> GetGlobalName(c.chunk, Fetch).name,
                           value |-> vm.stack[Len(vm.stack)]]}
        /\ \A p \in vm'.globals :
              ~GlobalDefined(vm.globals, p.name) => Dispatching("DefineGlobal") ]_vars

\* SetGlobal of b failed with a defined: the globals hold a alone
C17_Witness ==
    /\ vm.status = "error"
    /\ vm.last.op = "SetGlobal"
    /\ vm.error.msg = "Undefined variable"
    /\ vm.globals = {[name |-> "a", value |-> NumberVal(1)]}

\* what read_next has to give at offset ip of the chunk ch
ReadNextAsSpecified(ch, ip) ==
    IF ip >= Len(ch.code) THEN ReadNext(ch, ip).kind = "none"
    ELSE IF \/ ch.code[ip + 1] >= Len(OpCodeNames)
            \/ ip + OperandBytes(OpCodeNames[ch.code[ip + 1] + 1]) >= Len(ch.code)
    THEN ReadNext(ch, ip).kind = "err"
    ELSE /\ ReadNext(ch, ip).kind = "instr"
         /\ ReadNext(ch, ip).op = OpCodeNames[ch.code[ip + 1] + 1]
         /\ ReadNext(ch, ip).operand1
               = (IF OperandBytes(ReadNext(ch, ip).op) >= 1 THEN ch.code[ip + 2] ELSE -1)
         /\ ReadNext(ch, ip).operand2
               = (IF OperandBytes(ReadNext(ch, ip).op) = 2 THEN ch.code[ip + 3] ELSE -1)
         /\ ReadNext(ch, ip).offset = ip
         /\ ReadNext(ch, ip).line = ch.line_numbers[ip + 1]
         /\ ReadNext(ch, ip).ip = ip + 1 + OperandBytes(ReadNext(ch, ip).op)

\* C18: at every ip a run reaches, read_next gives end-of-stream exactly when ip is at or
\* past the end of the code; an error when the byte at ip is none of the 24 opcodes or
\* the opcode's operand bytes would lie past the end; and otherwise the instruction with
\* its operands, the offset and the line of the opcode byte, the ip moved past it.
C18_ReadNext == cstatus = "chunk" => ReadNextAsSpecified(c.chunk, vm.ip)

\* run ended with the error of read_next on a Jump that has one operand byte only, after an
\* instruction was read
C18_Witness ==
    /\ vm.status = "error"
    /\ vm.error.msg = "Failed to read code byte"
    /\ vm.last.kind = "instr"
    /\ Len(c.chunk.code) >= 2
    /\ c.chunk.code[Len(c.chunk.code) - 1] = OpByte("Jump")
    /\ vm.ip = Len(c.chunk.code)

(***************************************************************************)
(* Properties of repeated runs (SpecRunAgain)                              *)
(***************************************************************************)
\* C23: when a call of run starts (no instruction read yet), no global is defined: what
\* an earlier call of run on the same Vm defined is gone.
C23_GlobalsEmptyAtRunStart ==
    (vm.status = "running" /\ vm.last.kind = "none") => vm.globals = {}

(***************************************************************************)
(* Properties of the patching of forward jumps (SpecPatch)                 *)
(***************************************************************************)
\* the jump of the chunk has been patched with success
Patched == wlast.op = "patch_jump_to_chunk_end" /\ wlast.ok

\* chunk.len - (jmp_op_code_loc + 3) when patch_jump_to_chunk_end was called
PatchDistance == Len(wlast.before.code) - (wlast.start + 3)

\* the Vm has just executed the patched jump and taken it
JumpTaken ==
    /\ vm.status = "running"
    /\ vm.last.kind = "instr"
    /\ vm.last.offset = wlast.start
    /\ \/ vm.last.op = "Jump"
       \/ vm.last.op = "JumpIfFalse" /\ vm.stack = <<BooleanVal(FALSE)>>

\* C26: a successful patch_jump_to_chunk_end(o) has written chunk.len - (o + 3),
\* big-endian, into the bytes at o+1 and o+2 and has changed no other byte; and the Vm
\* that takes the jump has its ip at the code length of the time of patching.
C26_PatchedJumpLandsAtChunkEnd ==
    Patched =>
        /\ c.chunk.code[wlast.start + 2] * (U8Max + 1) + c.chunk.code[wlast.start + 3]
              = PatchDistance
        /\ \A k \in DOMAIN wlast.before.code :
              k \notin {wlast.start + 2, wlast.start + 3} =>
                  c.chunk.code[k] = wlast.before.code[k]
        /\ JumpTaken => vm.ip = Len(wlast.before.code)

\* C27: when the distance is more than 65535, patch_jump_to_chunk_end returns an error
\* and the operand bytes of the jump are as they were; what a patch has written is
\* never a distance cut to 16 bits.
C27_LongJumpRefused ==
    (wlast.op = "patch_jump_to_chunk_end" /\ PatchDistance > U16Max) =>
        /\ ~wlast.ok
        /\ c.chunk.code[wlast.start + 2] = wlast.before.code[wlast.start + 2]
        /\ c.chunk.code[wlast.start + 3] = wlast.before.code[wlast.start + 3]

(***************************************************************************)
(* Properties of the locals of a block (SpecLocals)                        *)
(***************************************************************************)
\* C22: a `var` declaration inside a block either adds a local, the locals then being at
\* most 256, or is reported by a new entry of the compile error list; it never aborts
\* the compiler.
C22_TooManyLocalsReported ==
    [][(cstatus = "block" /\ Check(c, "Var")) =>
          /\ ~c'.panicked
          /\ Len(c'.locals) <= U8Max + 1
          /\ Len(c'.locals) > Len(c.locals) \/ Len(c'.errors) > Len(c.errors)]_vars

\* the locals that end_scope has to leave, new_depth being the decremented scope depth
LocalsKept(locals, new_depth) == SelectSeq(locals, LAMBDA l : l.depth <= new_depth)

\* n Pop bytes
Pops(n) == [k \in 1..n |-> OpByte("Pop")]

\* C24: end_scope decrements the scope depth, removes exactly the locals deeper than the
\* new depth and writes one Pop for each; the locals of the enclosing scopes stay where
\* they are.  Seen at the end of the block the compiler is in (depth d to d - 1) and
\* at a nested block `{ var b; }` compiled inside it (its end_scope goes from d + 1 to d
\* and has the one local b to remove).
C24_EndScopeRemovesInnerLocalsOnly ==
    [][/\ (cstatus = "block" /\ Check(c, "RightBrace")) =>
             /\ c'.scope_depth = c.scope_depth - 1
             /\ c'.locals = LocalsKept(c.locals, c.scope_depth - 1)
             /\ c'.chunk.code = c.chunk.code \o Pops(Len(c.locals) - Len(c'.locals))
       /\ (cstatus = "block" /\ Check(c, "LeftBrace")) =>
             /\ c'.scope_depth = c.scope_depth
             /\ c'.locals = c.locals
             /\ c'.chunk.code = c.chunk.code \o <<OpByte("Nil")>> \o Pops(1)]_vars

(***************************************************************************)
(* Properties of the error-reporting methods (SpecRecovery)                *)
(***************************************************************************)
\* C7: a call leaves the errors recorded before it in place, at the front of the list; a
\* reporting call made in panic mode leaves the list as it is; and no more than one
\* error is appended from one call of synchronize to the next.
C7_ErrorsOnlyAppendedOncePerPanic ==
    [][ /\ Len(c'.errors) >= Len(c.errors)
        /\ SubSeq(c'.errors, 1, Len(c.errors)) = c.errors
        /\ (c.panic_mode /\ hist'.last # "synchronize") => c'.errors = c.errors
        /\ hist'.since_sync <= 1 ]_vars

\* an error is recorded and a later report was made in panic mode
C7_Witness == hist.suppressed > 0 /\ hist.since_sync = 1 /\ c.errors # <<>> /\ c.panic_mode

\* the condition at which synchronize stops: Eof, or a statement boundary
AtBoundary(cc) ==
    Check(cc, "Eof") \/ CheckPrev(cc, "Semicolon") \/ cc.current.type \in SyncStops

\* C33: a call of synchronize returns with panic_mode false and at a boundary (the
\* previous token is `;`, or the current one is Eof or begins a statement), and it skips
\* no token when it is called at a boundary.
C33_SynchronizeStopsAtBoundary ==
    [][(hist'.ops = hist.ops + 1 /\ hist'.last = "synchronize") =>
          /\ ~c'.panic_mode
          /\ AtBoundary(c')
          /\ AtBoundary(c) => (c'.pos = c.pos /\ c'.current = c.current)]_vars

(***************************************************************************)
(* The binary instructions on operands of every kind (SpecBinary): the Vm  *)
(* runs a chunk of up to two pushing instructions followed by one binary   *)
(* instruction.                                                            *)
(***************************************************************************)
\* the constants of these chunks: three Numbers and two Strings
BinaryPool == <<NumberVal(0), NumberVal(1), NumberVal(2), StringVal("a"), StringVal("b")>>

OperandInstrs ==
    {Bytes1("Constant", k - 1) : k \in DOMAIN BinaryPool}
    \cup {Bytes0("True"), Bytes0("False"), Bytes0("Nil")}

BinaryInstrNames == {"Add", "Subtract", "Multiply", "Divide", "Equal", "Greater", "Less"}

InitBinary ==
    /\ \E p \in UNION {SeqsOfLen(OperandInstrs, n) : n \in 0..2}, op \in BinaryInstrNames :
          c = [NewCompiler EXCEPT
                 !.chunk = WriteInstrs([NewChunk EXCEPT !.values = BinaryPool],
                                       p \o <<Bytes0(op)>>, 1)]
    /\ overflow_checks = TRUE
    /\ cstatus = "chunk"
    /\ vm = VmNew
    /\ source = <<>>
    /\ w = NewChunk
    /\ wlast = WLastNone
    /\ hist = HistNone
    /\ scanner = ScannerIdle

NextBinary ==
    \/ RunBegin
    \/ RunConstant \/ RunTrue \/ RunFalse \/ RunNil
    \/ RunAdd \/ RunSubtract \/ RunMultiply \/ RunDivide
    \/ RunEqual \/ RunGreater \/ RunLess
    \/ RunReadEnd

SpecBinary == InitBinary /\ [][NextBinary]_vars

(***************************************************************************)
(* Properties of the binary instructions (SpecBinary)                      *)
(***************************************************************************)
BothAre(a, b, tag) == a.tag = tag /\ b.tag = tag

\* the operands the instruction accepts
BinaryAccepts(op, a, b) ==
    CASE op = "Add" -> BothAre(a, b, "Number") \/ BothAre(a, b, "String")
      [] op \in {"Subtract", "Multiply", "Divide"} -> BothAre(a, b, "Number")
      [] OTHER -> TRUE

\* what a op b is, a being the left operand: for Greater and Less on two Numbers, and
\* for every other instruction on the operands it accepts
LeftOpRight(op, a, b) ==
    CASE op = "Add" -> IF a.tag = "Number" THEN F64Add(a, b) ELSE StringVal(a.str \o b.str)
      [] op = "Subtract" -> F64Sub(a, b)
      [] op = "Multiply" -> F64Mul(a, b)
      [] op = "Divide" -> F64Div(a, b)
      [] op = "Equal" -> BooleanVal(a.tag = b.tag /\ ValueEq(a, b))
      [] op = "Greater" -> BooleanVal(F64Less(b, a))
      [] OTHER -> BooleanVal(F64Less(a, b))

\* C34: a binary instruction on a stack <<.., a, b>> whose operands it accepts leaves
\* <<.., a op b>>, a (pushed earlier) being the left operand: the stack is one lower.
\* Equal accepts every two values and pushes false when their tags differ.
C34_BinaryOperandOrder ==
    [][ \A op \in BinaryInstrNames :
          (Dispatching(op) /\ Len(vm.stack) >= 2) =>
             LET n == Len(vm.stack)
                 a == vm.stack[n - 1]
                 b == vm.stack[n]
             IN  /\ BinaryAccepts(op, a, b) =>
                       /\ vm'.status = "running"
                       /\ Len(vm'.stack) = n - 1
                       /\ SubSeq(vm'.stack, 1, n - 2) = SubSeq(vm.stack, 1, n - 2)
                       /\ (op \in {"Greater", "Less"} => vm'.stack[n - 1].tag = "Boolean")
                       /\ (op \notin {"Greater", "Less"} \/ BothAre(a, b, "Number")) =>
                             vm'.stack[n - 1] = LeftOpRight(op, a, b)
                 /\ (op = "Equal" /\ a.tag # b.tag) => vm'.stack[n - 1] = BooleanVal(FALSE)
      ]_vars

\* 2 pushed, then 1, then Subtract: 2 - 1 = 1 is what is left
C34_Witness ==
    /\ vm.status = "running"
    /\ vm.last.op = "Subtract"
    /\ vm.steps = 3
    /\ ReadNext(c.chunk, 0).operand1 = 2
    /\ ReadNext(c.chunk, 2).operand1 = 1
    /\ vm.stack = <<NumberVal(1)>>

(***************************************************************************)
(* The Scanner on characters (SpecScanner): scan_next is called again and  *)
(* again on every text of up to MaxTextLen characters, as Compiler::advance*)
(* calls it.                                                               *)
(***************************************************************************)
MaxTextLen == 4      \* characters of a scanned text

TextAlphabet == {" ", "\n", "/", "\"", "1", ".", "a", "=", "@"}
Texts == UNION {SeqsOfLen(TextAlphabet, n) : n \in 0..MaxTextLen}

InitScanner ==
    /\ \E text \in Texts : scanner = [ScannerIdle EXCEPT !.state = ScannerNew(text)]
    /\ source = <<>>
    /\ overflow_checks = TRUE
    /\ c = NewCompiler
    /\ cstatus = "new"
    /\ vm = VmNew
    /\ w = NewChunk
    /\ wlast = WLastNone
    /\ hist = HistNone

\* one call of Scanner::scan_next
ScanCall ==
    /\ scanner' = With(ScannerScanNext(scanner.state), LAMBDA r :
                       [state |-> r.scanner, ok |-> r.ok, token |-> r.token])
    /\ UNCHANGED <<source, overflow_checks, c, cstatus, vm, w, wlast, hist>>

NextScanner == ScanCall

SpecScanner == InitScanner /\ [][NextScanner]_vars

(***************************************************************************)
(* Properties of the Scanner (SpecScanner)                                 *)
(***************************************************************************)
\* a call of scan_next, wherever the scanner stands, returns Eof with the scanner at the
\* end of the text, or leaves current further on than it was; current never passes the end
ScanNextAdvancesOrReturnsEof ==
    LET s == scanner.state
        r == ScannerScanNext(s)
    IN  /\ \/ r.ok /\ r.token.type = "Eof" /\ IsAtEnd(r.scanner)
           \/ r.scanner.current > s.current
        /\ r.scanner.current <= Len(s.source)
        /\ (scanner.ok /\ scanner.token.type = "Eof") => (r.ok /\ r.token.type = "Eof")

\* the comment of `//a` followed by a line end has been skipped, and Eof returned at line 2
ScanNextSkipsComment ==
    /\ scanner.state.source = <<"/", "/", "a", "\n">>
    /\ scanner.token = Tok("Eof", "", 2)

(***************************************************************************)
(* Properties of the writer (SpecWriter)                                   *)
(***************************************************************************)
\* C8: the constant pool never holds more than 256 values.
C8_PoolAtMost256 == Len(w.values) <= U8Max + 1

\* C9: write_const on a pool of 256 constants is an Err and appends nothing to the code;
\* on a smaller pool it appends the two bytes Constant, index and returns the offset of
\* the Constant byte.
C9_WriteConstOutcome ==
    wlast.op = "write_const" =>
        IF Len(wlast.before.values) >= U8Max + 1
        THEN ~wlast.ok /\ w.code = wlast.before.code
        ELSE /\ wlast.ok
             /\ w.code = wlast.before.code \o <<OpByte("Constant"), Len(wlast.before.values)>>
             /\ wlast.start = Len(wlast.before.code)

\* C10: get_const of an index that add_constant returned gives the value that was added,
\* however many values were added since; the index returned last was never returned before.
C10_IndicesStable ==
    /\ \A k \in DOMAIN hist.issued :
          ChunkGetConstant(w, hist.issued[k].index)
              = [ok |-> TRUE, value |-> hist.issued[k].value]
    /\ \A k \in DOMAIN hist.issued :
          k < Len(hist.issued) => hist.issued[k].index # hist.issued[Len(hist.issued)].index

====
